---- MODULE Spec2Model ----
(***************************************************************************)
(* Verification model of the memory / automation core of the extension:    *)
(*   - cross-tab sync (scripts/memory/memory-sync.js) over the memory      *)
(*     graph (memory-graph.js) and the unified Memory API (index.js);      *)
(*   - the webhook job queue (background service worker + storage.js);     *)
(*   - one MemoryGraph in full under its own operations, its persistence   *)
(*     (memory-store.js) and the session messages of other tabs.           *)
(*   - the saved conversations of storage.js under the requests of the     *)
(*     service worker, and the script runner of a page (content/runner.js).*)
(* Each subsystem has its own specification over the shared variables;     *)
(* the variables of the other subsystems stay at their initial value.      *)
(***************************************************************************)
EXTENDS Integers, Sequences, FiniteSets, TLC

VARIABLES
  now,        \* Date.now(), in ms
  sync,       \* per tab: the MemorySync instance together with its graph
  chan,       \* BroadcastChannel messages in flight, per (sender, receiver)
  saves,      \* history: calls of memoryStore.saveGraph made by the sync layer
  lost,       \* history: the tab that died or shut down, and how
  hist,       \* history: per tab, its re-elections since the loss, its claims, and
              \* whether the last message it handled made it yield to a claim
  lastSync,   \* history: per tab, the last full_sync_response it received
  missed,     \* history: per tab, a node_added was posted before it listened
  nextNodeId, \* source of fresh MemoryNode ids
  jobs,       \* chrome.storage.local["awt_jobs"]: {byId, order}
  connectors, \* settings.connectors: the connector is there, enabled, has a url
  granted,    \* chrome.permissions: the connector's origin is granted
  proc,       \* the handler invocations of the service worker, at their await
  ledger,     \* history: per job, the POSTs issued and their outcomes
  nextJobId,  \* source of fresh job ids
  mg,         \* one MemoryGraph in full: tables, indices, sessions
  disk,       \* the IndexedDB stores of memory-store.js
  op,         \* history: the last operation called on mg and what it returned
  ids,        \* sources of fresh node, edge and session ids of mg
  conv,       \* chrome.storage.local["awt_conversations"]: {byId, order, urlToId}
  calls,      \* the conversation requests of the service worker, at their await
  cop,        \* history: the last conversation request served and its result
  runner      \* content/runner.js of one page: lastUrl, runTimer, running

syncVars == <<sync, chan, saves, lost, hist, lastSync, missed, nextNodeId>>
jobVars == <<jobs, connectors, granted, proc, ledger, nextJobId>>
mgVars == <<mg, disk, op, ids>>
appVars == <<conv, calls, cop, runner>>
vars == <<now, syncVars, jobVars, mgVars, appVars>>

-----------------------------------------------------------------------------
(* Bounds                                                                   *)

NTabs == 3
MaxInFlight == 2
MaxTicks == 1
TickMs == 16000
MaxNodes == 2
MaxMs == 1

-----------------------------------------------------------------------------
(* Program constants (memory-sync.js)                                       *)

LEADER_HEARTBEAT_MS == 5000
LEADER_TIMEOUT_MS == 15000

Tabs == 1..NTabs
NoTab == 0
StartTime == LEADER_HEARTBEAT_MS
MaxNow == StartTime + MaxTicks * TickMs

MessageType == [NODE_ADDED |-> "node_added",
                NODE_UPDATED |-> "node_updated",
                NODE_REMOVED |-> "node_removed",
                EDGE_ADDED |-> "edge_added",
                REQUEST_FULL_SYNC |-> "request_full_sync",
                FULL_SYNC_RESPONSE |-> "full_sync_response",
                HEARTBEAT |-> "heartbeat",
                LEADER_CLAIM |-> "leader_claim",
                LEADER_RELEASE |-> "leader_release",
                LEADER_QUERY |-> "leader_query",
                LEADER_ANNOUNCE |-> "leader_announce"]

NoPayload == <<>>

Msg(type, tabId, targetTabId, payload) ==
  [type |-> type, tabId |-> tabId, targetTabId |-> targetTabId, payload |-> payload]

-----------------------------------------------------------------------------
(* The memory graph of one tab (memory-graph.js)                            *)
(* A JS Map is a sequence of entries in insertion order; a set() on an     *)
(* existing key keeps its position.                                        *)

MapKeys(m) == {m[i].k : i \in 1..Len(m)}
MapHas(m, k) == k \in MapKeys(m)
MapGet(m, k) == (CHOOSE i \in 1..Len(m) : m[i].k = k) \* index of key k
MapVal(m, k) == m[MapGet(m, k)].v
MapSet(m, k, v) ==
  IF MapHas(m, k) THEN [m EXCEPT ![MapGet(m, k)] = [k |-> k, v |-> v]]
  ELSE Append(m, [k |-> k, v |-> v])

\* the types and contents the tabs work with, as strings of char codes
NodeType == <<116>>                      \* "t"
ContentPool(t) == IF t = 1 THEN {<<65, 97>>}        \* "Aa"
                  ELSE IF t = 2 THEN {<<66, 66>>}   \* "BB"
                  ELSE {<<67>>}                     \* "C"

\* A 32-bit integer is kept as its two 16-bit halves <<high, low>>
\* ((hash << 5) - hash) + char, then hash & hash: hash * 31 + char mod 2^32
HashStep(hash, char) ==
  LET low == hash[2] * 31 + char
  IN <<(hash[1] * 31 + low \div 65536) % 65536, low % 65536>>

RECURSIVE HashStr(_, _)
HashStr(hash, str) ==
  IF str = <<>> THEN hash
  ELSE HashStr(HashStep(hash, Head(str)), Tail(str))

\* _hashContent: `${type}:${JSON.stringify(content)}`, rolling 32-bit hash
\* (its base-36 rendering is one-to-one, so the 32-bit value is the key)
HashContent(type, content) ==
  HashStr(<<0, 0>>, type \o <<58>> \o <<34>> \o content \o <<34>>)

\* new MemoryGraph(): empty tables, stats.lastModified = Date.now()
MemoryGraph(t) ==
  [nodes |-> <<>>, contentIndex |-> <<>>, edges |-> {}, sessions |-> {},
   activeSession |-> 0, lastModified |-> t]

\* new MemoryNode(type, content, metadata): timestamps are set to Date.now()
MemoryNode(id, type, content, t) ==
  [id |-> id, type |-> type, content |-> content, updatedAt |-> t]

\* MemoryNode.fromJSON: goes through the constructor, which stamps
\* metadata.updatedAt with the current time, then restores the id
NodeFromJSON(json, t) == MemoryNode(json.id, json.type, json.content, t)

\* MemoryGraph.addNode: [graph, node]; dedup through the content index
GraphAddNode(g, id, type, content, t) ==
  LET hash == HashContent(type, content)
      hit == MapHas(g.contentIndex, hash) /\ MapHas(g.nodes, MapVal(g.contentIndex, hash))
  IN IF hit
     THEN LET old == MapVal(g.nodes, MapVal(g.contentIndex, hash))
              touched == [old EXCEPT !.updatedAt = t]
          IN [graph |-> [g EXCEPT !.nodes = MapSet(g.nodes, old.id, touched)],
              node |-> touched]
     ELSE LET node == MemoryNode(id, type, content, t)
          IN [graph |-> [g EXCEPT !.nodes = MapSet(g.nodes, id, node),
                                  !.contentIndex = MapSet(g.contentIndex, hash, id),
                                  !.lastModified = t],
              node |-> node]

\* MemoryGraph.startSession: ends the active one, creates a new active one
GraphStartSession(g, sid) ==
  [g EXCEPT !.sessions = g.sessions \cup {sid}, !.activeSession = sid]

\* MemoryGraph.toJSON
GraphToJSON(g) ==
  [nodes |-> [i \in 1..Len(g.nodes) |-> g.nodes[i].v],
   edges |-> g.edges, sessions |-> g.sessions, lastModified |-> g.lastModified]

RECURSIVE RebuildNodes(_, _, _)
RebuildNodes(g, jsonNodes, t) ==
  IF jsonNodes = <<>> THEN g
  ELSE LET node == NodeFromJSON(Head(jsonNodes), t)
       IN RebuildNodes([g EXCEPT !.nodes = MapSet(g.nodes, node.id, node),
                                 !.contentIndex = MapSet(g.contentIndex,
                                     HashContent(node.type, node.content), node.id)],
                       Tail(jsonNodes), t)

\* MemoryGraph.fromJSON: rebuilds the tables, takes over json.stats
GraphFromJSON(json, t) ==
  [RebuildNodes(MemoryGraph(t), json.nodes, t)
     EXCEPT !.edges = json.edges, !.sessions = json.sessions,
            !.lastModified = json.lastModified]

-----------------------------------------------------------------------------
(* MemorySync (memory-sync.js): pure handlers on one instance               *)
(* A handler returns the instance after the call and the messages it posts *)

\* new MemorySync(): nothing known, no timers
MemorySync ==
  [phase |-> "new", isLeader |-> FALSE, leaderId |-> NoTab, leaderLastSeen |-> 0,
   heartbeatInterval |-> FALSE, syncDebounceTimer |-> FALSE, pendingElect |-> {},
   graph |-> MemoryGraph(StartTime)]

\* the tab has an open BroadcastChannel
ChannelOpen(st) == st.phase \in {"electing", "ready"}

Ret(st, out) == [st |-> st, out |-> out]

\* _schedulePersist: only a leader arms the debounce timer
SchedulePersist(st) ==
  IF ~st.isLeader THEN st ELSE [st EXCEPT !.syncDebounceTimer = TRUE]

\* _claimLeadership
ClaimLeadership(st, self, t) ==
  Ret([st EXCEPT !.isLeader = TRUE, !.leaderId = self, !.leaderLastSeen = t,
                 !.heartbeatInterval = TRUE],
      <<Msg(MessageType.LEADER_CLAIM, self, NoTab, NoPayload)>>)

\* the test of _startLeaderElection: no other tab is known as leader
Claims(st, self) == st.leaderId = NoTab \/ st.leaderId = self

\* _startLeaderElection, after the 200 ms wait
ElectionWaitOver(st, self, t) ==
  IF Claims(st, self)
  THEN ClaimLeadership(st, self, t)
  ELSE Ret(st, <<>>)

\* variant of _handleLeaderClaim in which a leader never yields to a claim
HandleLeaderClaim_NeverYields(st, self, m, t) ==
  IF st.isLeader
  THEN st
  ELSE [st EXCEPT !.leaderId = m.tabId, !.leaderLastSeen = t]

\* variant of _handleLeaderClaim in which the leader with the smaller tabId
\* is the one that yields
HandleLeaderClaim_LargerWins(st, self, m, t) ==
  IF st.isLeader
  THEN IF m.tabId > self
       THEN [st EXCEPT !.isLeader = FALSE, !.leaderId = m.tabId,
                       !.leaderLastSeen = t, !.heartbeatInterval = FALSE]
       ELSE st
  ELSE [st EXCEPT !.leaderId = m.tabId, !.leaderLastSeen = t]

\* _handleLeaderClaim
HandleLeaderClaim(st, self, m, t) ==
  IF st.isLeader
  THEN IF m.tabId < self
       THEN [st EXCEPT !.isLeader = FALSE, !.leaderId = m.tabId,
                       !.leaderLastSeen = t, !.heartbeatInterval = FALSE]
       ELSE st
  ELSE [st EXCEPT !.leaderId = m.tabId, !.leaderLastSeen = t]

\* _handleLeaderAnnounce
HandleLeaderAnnounce(st, self, m, t) ==
  LET st1 == [st EXCEPT !.leaderId = m.tabId, !.leaderLastSeen = t]
  IN IF st1.isLeader /\ self # m.tabId /\ m.tabId < self
     THEN [st1 EXCEPT !.isLeader = FALSE, !.heartbeatInterval = FALSE]
     ELSE st1

\* _applyNodeData
ApplyNodeData(g, nodeData, t) ==
  LET node == NodeFromJSON(nodeData, t)
  IN [g EXCEPT !.nodes = MapSet(g.nodes, node.id, node),
               !.contentIndex = MapSet(g.contentIndex,
                                       HashContent(node.type, node.content), node.id)]

\* _handleRemoteNodeAdded
HandleRemoteNodeAdded(g, nodeData, t) ==
  IF MapHas(g.nodes, nodeData.id)
  THEN IF nodeData.updatedAt > MapVal(g.nodes, nodeData.id).updatedAt
       THEN ApplyNodeData(g, nodeData, t)
       ELSE g
  ELSE ApplyNodeData(g, nodeData, t)

\* variant of the test of _applyFullSync that also takes over an equally old graph
FullSyncApplies_OrEqual(ours, theirs) == theirs >= ours

\* the test of _applyFullSync: only a strictly newer graph is taken over
FullSyncApplies(ours, theirs) == theirs > ours

\* _applyFullSync: the tables and stats are replaced, activeSession is kept
ApplyFullSync(g, graphData, t) ==
  IF FullSyncApplies(g.lastModified, graphData.lastModified)
  THEN [GraphFromJSON(graphData, t) EXCEPT !.activeSession = g.activeSession]
  ELSE g

\* _handleMessage, for a message of another tab
HandleMessage(st, self, m, t) ==
  CASE m.type = MessageType.NODE_ADDED ->
         Ret([st EXCEPT !.graph = HandleRemoteNodeAdded(st.graph, m.payload, t)], <<>>)
    [] m.type = MessageType.REQUEST_FULL_SYNC ->
         IF st.isLeader
         THEN Ret(st, <<Msg(MessageType.FULL_SYNC_RESPONSE, self, m.tabId,
                            GraphToJSON(st.graph))>>)
         ELSE Ret(st, <<>>)
    [] m.type = MessageType.FULL_SYNC_RESPONSE ->
         IF m.targetTabId = self
         THEN Ret([st EXCEPT !.graph = ApplyFullSync(st.graph, m.payload, t)], <<>>)
         ELSE Ret(st, <<>>)
    [] m.type = MessageType.HEARTBEAT ->
         IF m.tabId = st.leaderId
         THEN Ret([st EXCEPT !.leaderLastSeen = t], <<>>)
         ELSE Ret(st, <<>>)
    [] m.type = MessageType.LEADER_CLAIM ->
         Ret(HandleLeaderClaim(st, self, m, t), <<>>)
    [] m.type = MessageType.LEADER_RELEASE ->
         IF m.tabId = st.leaderId
         THEN Ret([st EXCEPT !.pendingElect = @ \cup {"release"}],
                  <<Msg(MessageType.LEADER_QUERY, self, NoTab, NoPayload)>>)
         ELSE Ret(st, <<>>)
    [] m.type = MessageType.LEADER_QUERY ->
         IF st.isLeader
         THEN Ret(st, <<Msg(MessageType.LEADER_ANNOUNCE, self, NoTab, NoPayload)>>)
         ELSE Ret(st, <<>>)
    [] m.type = MessageType.LEADER_ANNOUNCE ->
         Ret(HandleLeaderAnnounce(st, self, m, t), <<>>)

-----------------------------------------------------------------------------
(* The tabs and the broadcast channel                                       *)

Pairs == Tabs \X Tabs

\* BroadcastChannel.postMessage: to every other tab that is listening
Bcast(c, s, out) ==
  [p \in Pairs |-> IF p[1] = s /\ p[2] # s /\ ChannelOpen(sync[p[2]])
                   THEN c[p] \o out ELSE c[p]]

\* the tab's channel object goes away: what was queued for it is dropped
DropInbox(c, r) == [p \in Pairs |-> IF p[2] = r THEN <<>> ELSE c[p]]

Room(s) == \A r \in Tabs : Len(chan[<<s, r>>]) < MaxInFlight

NoLoss == [tab |-> NoTab, how |-> "none", leader |-> FALSE]
NoSync == [target |-> NoTab]

\* Memory.init up to the wait of sync.init: the graph singleton exists, no
\* persisted nodes are found, the channel is opened and leader_query posted
InitStart(t) ==
  /\ sync[t].phase = "new"
  /\ Room(t)
  /\ sync' = [sync EXCEPT ![t] = [@ EXCEPT !.phase = "electing",
                                           !.graph = MemoryGraph(now)]]
  /\ chan' = Bcast(chan, t, <<Msg(MessageType.LEADER_QUERY, t, NoTab, NoPayload)>>)
  /\ UNCHANGED <<now, saves, lost, hist, lastSync, missed, nextNodeId>>
  /\ UNCHANGED <<jobVars, mgVars, appVars>>

\* the rest of sync.init after the election wait (heartbeat, leader check,
\* _requestFullSync, isInitialized) and of Memory.init (graph.startSession)
InitElectionDone(t) ==
  /\ sync[t].phase = "electing"
  /\ Room(t)
  /\ LET r == ElectionWaitOver(sync[t], t, now)
         req == IF r.st.leaderId # NoTab /\ r.st.leaderId # t
                THEN <<Msg(MessageType.REQUEST_FULL_SYNC, t, NoTab, NoPayload)>>
                ELSE <<>>
     IN /\ sync' = [sync EXCEPT ![t] =
                      [r.st EXCEPT !.phase = "ready",
                                   !.graph = GraphStartSession(r.st.graph, t)]]
        /\ chan' = Bcast(chan, t, r.out \o req)
  /\ hist' = [hist EXCEPT ![t].claimed = @ \/ Claims(sync[t], t)]
  /\ UNCHANGED <<now, saves, lost, lastSync, missed, nextNodeId>>
  /\ UNCHANGED <<jobVars, mgVars, appVars>>

\* the leader-check interval fires and finds the leader silent for too long
LeaderCheck(t) ==
  /\ sync[t].phase = "ready"
  /\ sync[t].leaderId # NoTab /\ sync[t].leaderId # t
  /\ now - sync[t].leaderLastSeen > LEADER_TIMEOUT_MS
  /\ "timeout" \notin sync[t].pendingElect
  /\ Room(t)
  /\ sync' = [sync EXCEPT ![t].pendingElect = @ \cup {"timeout"}]
  /\ chan' = Bcast(chan, t, <<Msg(MessageType.LEADER_QUERY, t, NoTab, NoPayload)>>)
  /\ hist' = [hist EXCEPT ![t].begun =
                IF lost # NoLoss THEN @ \cup {"timeout"} ELSE @ \ {"timeout"}]
  /\ UNCHANGED <<now, saves, lost, lastSync, missed, nextNodeId>>
  /\ UNCHANGED <<jobVars, mgVars, appVars>>

\* the 200 ms wait of an election started by the leader check or by a
\* leader_release is over
ElectionDone(t, cause) ==
  /\ ChannelOpen(sync[t])
  /\ cause \in sync[t].pendingElect
  /\ Room(t)
  /\ LET r == ElectionWaitOver(sync[t], t, now)
     IN /\ sync' = [sync EXCEPT ![t] = [r.st EXCEPT !.pendingElect = @ \ {cause}]]
        /\ chan' = Bcast(chan, t, r.out)
  /\ hist' = [hist EXCEPT ![t] =
                [@ EXCEPT !.done = @ \cup ({cause} \cap hist[t].begun),
                          !.claimed = @ \/ Claims(sync[t], t)]]
  /\ UNCHANGED <<now, saves, lost, lastSync, missed, nextNodeId>>
  /\ UNCHANGED <<jobVars, mgVars, appVars>>

\* the heartbeat interval fires
HeartbeatFire(t) ==
  /\ ChannelOpen(sync[t])
  /\ sync[t].heartbeatInterval
  /\ sync[t].isLeader
  /\ \A p \in Pairs : chan[p] = <<>>
  /\ sync' = [sync EXCEPT ![t] = SchedulePersist(@)]
  /\ chan' = Bcast(chan, t, <<Msg(MessageType.HEARTBEAT, t, NoTab, NoPayload)>>)
  /\ UNCHANGED <<now, saves, lost, hist, lastSync, missed, nextNodeId>>
  /\ UNCHANGED <<jobVars, mgVars, appVars>>

\* the debounce timer armed by _schedulePersist fires: saveGraph is called
PersistFire(t) ==
  /\ ChannelOpen(sync[t])
  /\ sync[t].syncDebounceTimer
  /\ sync' = [sync EXCEPT ![t].syncDebounceTimer = FALSE]
  /\ saves' = saves \cup {[tab |-> t, leader |-> sync[t].isLeader]}
  /\ UNCHANGED <<now, chan, lost, hist, lastSync, missed, nextNodeId>>
  /\ UNCHANGED <<jobVars, mgVars, appVars>>

\* the tab is killed: nothing is posted, its timers and channel are gone
Crash(t) ==
  /\ lost = NoLoss
  /\ sync[t].phase = "ready"
  /\ sync[t].isLeader
  /\ sync' = [sync EXCEPT ![t] = [@ EXCEPT !.phase = "crashed",
                                           !.heartbeatInterval = FALSE,
                                           !.syncDebounceTimer = FALSE,
                                           !.pendingElect = {}]]
  /\ chan' = DropInbox(chan, t)
  /\ lost' = [tab |-> t, how |-> "crash", leader |-> sync[t].isLeader]
  /\ UNCHANGED <<now, saves, hist, lastSync, missed, nextNodeId>>
  /\ UNCHANGED <<jobVars, mgVars, appVars>>

\* shutdown(): a leader posts leader_release; timers cleared, channel closed
Shutdown(t) ==
  /\ lost = NoLoss
  /\ sync[t].phase = "ready"
  /\ sync[t].isLeader
  /\ Room(t)
  /\ sync' = [sync EXCEPT ![t] = [@ EXCEPT !.phase = "closed",
                                           !.heartbeatInterval = FALSE,
                                           !.syncDebounceTimer = FALSE]]
  /\ chan' = DropInbox(
       Bcast(chan, t, IF sync[t].isLeader
                      THEN <<Msg(MessageType.LEADER_RELEASE, t, NoTab, NoPayload)>>
                      ELSE <<>>), t)
  /\ lost' = [tab |-> t, how |-> "release", leader |-> sync[t].isLeader]
  /\ UNCHANGED <<now, saves, hist, lastSync, missed, nextNodeId>>
  /\ UNCHANGED <<jobVars, mgVars, appVars>>

\* nothing in flight and no 200 ms election wait pending
Quiescent ==
  /\ \A p \in Pairs : chan[p] = <<>>
  /\ \A t \in Tabs : sync[t].phase # "electing" /\ sync[t].pendingElect = {}

\* seconds pass: deliveries and the 200 ms waits are over long before
Tick ==
  /\ now < MaxNow
  /\ Quiescent
  /\ now' = now + TickMs
  /\ UNCHANGED <<sync, chan, saves, lost, hist, lastSync, missed, nextNodeId>>
  /\ UNCHANGED <<jobVars, mgVars, appVars>>

\* channel.onmessage: the oldest message of tab s reaches tab r
Deliver(s, r) ==
  /\ s # r
  /\ chan[<<s, r>>] # <<>>
  /\ ChannelOpen(sync[r])
  /\ Room(r)
  /\ LET m == Head(chan[<<s, r>>])
         h == HandleMessage(sync[r], r, m, now)
     IN /\ sync' = [sync EXCEPT ![r] = h.st]
        /\ chan' = Bcast([chan EXCEPT ![<<s, r>>] = Tail(@)], r, h.out)
        /\ lastSync' = IF m.type = MessageType.FULL_SYNC_RESPONSE
                       THEN [lastSync EXCEPT ![r] =
                               [target |-> m.targetTabId, payload |-> m.payload,
                                before |-> sync[r].graph, after |-> h.st.graph]]
                       ELSE lastSync
        /\ hist' = [hist EXCEPT ![r] =
                      [@ EXCEPT !.begun = @ \cup (h.st.pendingElect \ {"timeout"}),
                                !.yielded = /\ m.type = MessageType.LEADER_CLAIM
                                            /\ sync[r].isLeader
                                            /\ ~h.st.isLeader]]
  /\ UNCHANGED <<now, saves, lost, missed, nextNodeId>>
  /\ UNCHANGED <<jobVars, mgVars, appVars>>

\* Memory.addNode: graph.addNode, then sync.broadcastNodeAdded
AddNode(t, content) ==
  /\ sync[t].phase = "ready"
  /\ nextNodeId <= MaxNodes
  /\ Room(t)
  /\ LET r == GraphAddNode(sync[t].graph, nextNodeId, NodeType, content, now)
     IN /\ sync' = [sync EXCEPT ![t] = SchedulePersist([@ EXCEPT !.graph = r.graph])]
        /\ chan' = Bcast(chan, t, <<Msg(MessageType.NODE_ADDED, t, NoTab, r.node)>>)
  /\ nextNodeId' = nextNodeId + 1
  /\ missed' = [u \in Tabs |-> missed[u] \/ sync[u].phase = "new"]
  /\ hist' = [hist EXCEPT ![t].added = TRUE]
  /\ UNCHANGED <<now, saves, lost, lastSync>>
  /\ UNCHANGED <<jobVars, mgVars, appVars>>

-----------------------------------------------------------------------------
(* The webhook job queue (background service worker, storage.js)           *)
(* A job keeps the fields the pump reads or writes; 0 and "" stand for a   *)
(* field that is not there. One connector, "hook", is configured.          *)

MaxJobs == 1
MaxMinutes == 11

ALARM_PERIOD_MS == 60000      \* chrome.alarms.create(..., {periodInMinutes: 1})
BACKOFF_STEP_MS == 60000      \* 60_000 * attempts
BACKOFF_CAP_MS == 600000      \* 10 * 60_000
MAX_ATTEMPTS == 5             \* attempts >= 5 ? "failed" : "queued"
MAX_PER_PUMP == 3             \* if (processed >= 3) break

JobIds == 1..(MaxJobs + 1)
Procs == {"alarm", "send"}
JobsMaxNow == StartTime + MaxMinutes * ALARM_PERIOD_MS

Min(a, b) == IF a < b THEN a ELSE b
Reverse(s) == [i \in 1..Len(s) |-> s[Len(s) + 1 - i]]

\* getJobs() on an empty storage
NoJobs == [byId |-> <<>>, order |-> <<>>]

\* a job that is not in the storage
NoJob == [id |-> 0, connectorId |-> "", attempts |-> 0, status |-> "",
          error |-> "", nextRunAt |-> 0, result |-> 0]

\* {...j, ...patch}
Merge(j, patch) ==
  [f \in DOMAIN j |-> IF f \in DOMAIN patch THEN patch[f] ELSE j[f]]

\* enqueueJob, after its getJobs() returned js
EnqueueJob(js, id, connectorId) ==
  LET j == [id |-> id, connectorId |-> connectorId, attempts |-> 0,
            status |-> "queued", error |-> "", nextRunAt |-> 0, result |-> 0]
  IN [byId |-> MapSet(js.byId, id, j),
      order |-> <<id>> \o SelectSeq(js.order, LAMBDA x : x # id)]

\* updateJob, after its getJobs() returned js: what it hands to setJobs
UpdateJob(js, id, patch) ==
  [js EXCEPT !.byId = MapSet(js.byId, id, Merge(MapVal(js.byId, id), patch))]

\* the jobs the scan loop of pumpJobs passes over
Skipped(js, id, t) ==
  \/ ~MapHas(js.byId, id)
  \/ LET j == MapVal(js.byId, id)
     IN \/ j.status = "done"
        \/ j.status = "running"
        \/ (j.nextRunAt # 0 /\ t < j.nextRunAt)

\* the ids still to scan, from the first one that is not passed over
RECURSIVE NextEligible(_, _, _)
NextEligible(js, order, t) ==
  IF order = <<>> THEN <<>>
  ELSE IF Skipped(js, Head(order), t) THEN NextEligible(js, Tail(order), t)
  ELSE order

\* Math.min(60_000 * attempts, 10 * 60_000)
Backoff(attempts) == Min(BACKOFF_STEP_MS * attempts, BACKOFF_CAP_MS)

\* the patch of the failure branches of pumpJobs, for the job j of the snapshot
FailurePatch(j, error, t) ==
  LET attempts == j.attempts + 1
  IN [status |-> IF attempts >= MAX_ATTEMPTS THEN "failed" ELSE "queued",
      error |-> error,
      nextRunAt |-> t + Backoff(attempts)]

\* variant of the preflight patch that puts the job back in the queue
PreflightPatch_Requeues(error) == [status |-> "queued", error |-> error]

\* the patch of the connector and host-permission preflight of pumpJobs
PreflightPatch(error) == [status |-> "failed", error |-> error]

\* the patch pumpJobs writes before the POST, for the job j of the snapshot
RunningPatch(j) == [status |-> "running", attempts |-> j.attempts + 1]

\* a handler invocation that is not running
Idle ==
  [pc |-> "idle", jobs |-> NoJobs, snap |-> NoJobs, conn |-> FALSE,
   order |-> <<>>, processed |-> 0, id |-> 0, patch |-> <<>>, next |-> "idle"]

NoFail == [a |-> 0]
NoLedger ==
  [posts |-> [i \in JobIds |-> 0], fails |-> [i \in JobIds |-> 0],
   oks |-> [i \in JobIds |-> 0], pending |-> [p \in Procs |-> NoFail],
   lastFail |-> [i \in JobIds |-> NoFail]]

\* updateJob(id, patch) is called: its getJobs() reads the storage now, its
\* setJobs() is issued when the read has come back
CallUpdateJob(st, id, patch, next) ==
  [st EXCEPT !.pc = "write", !.jobs = jobs, !.id = id, !.patch = patch,
             !.next = next]

\* router "awt:connector_send": connector and host permission are checked,
\* enqueueJob is called and reads the storage
ConnectorSendOf(p, most) ==
  /\ p = "send"
  /\ proc[p].pc = "idle"
  /\ nextJobId <= most
  /\ connectors /\ granted
  /\ proc' = [proc EXCEPT ![p] = [Idle EXCEPT !.pc = "enqueue", !.jobs = jobs]]
  /\ UNCHANGED <<now, syncVars, mgVars, appVars, jobs, connectors, granted, ledger, nextJobId>>

\* the same, for the jobs of the job queue specification
ConnectorSend(p) == ConnectorSendOf(p, MaxJobs)

\* enqueueJob writes the storage back with the new job in front
Enqueue(p) ==
  /\ proc[p].pc = "enqueue"
  /\ jobs' = EnqueueJob(proc[p].jobs, nextJobId, "hook")
  /\ nextJobId' = nextJobId + 1
  /\ proc' = [proc EXCEPT ![p] = [Idle EXCEPT !.pc = "pump"]]
  /\ UNCHANGED <<now, syncVars, mgVars, appVars, connectors, granted, ledger>>

\* the alarm "awt_job_pump" fires: its listener calls pumpJobs
AlarmFire(p) ==
  /\ p = "alarm"
  /\ proc[p].pc = "idle"
  /\ proc' = [proc EXCEPT ![p] = [Idle EXCEPT !.pc = "pump"]]
  /\ UNCHANGED <<now, syncVars, mgVars, appVars, jobs, connectors, granted, ledger, nextJobId>>

\* pumpJobs: settings and jobs are read once, the order is reversed
PumpStart(p) ==
  /\ proc[p].pc = "pump"
  /\ proc' = [proc EXCEPT ![p] =
       [Idle EXCEPT !.pc = "scan", !.snap = jobs, !.conn = connectors,
                    !.order = Reverse(jobs.order)]]
  /\ UNCHANGED <<now, syncVars, mgVars, appVars, jobs, connectors, granted, ledger, nextJobId>>

\* connectorById[j.connectorId] is there, enabled and has a url: "hook" is the
\* one connector that may be configured
Usable(st, id) ==
  st.conn /\ MapVal(st.snap.byId, id).connectorId = "hook"

\* pumpJobs, the head of the loop: up to the next job that is not passed over;
\* a job without a usable connector is failed, otherwise the host permission
\* is asked for
Scan(p) ==
  /\ proc[p].pc = "scan"
  /\ LET st == proc[p]
         rest == IF st.processed >= MAX_PER_PUMP THEN <<>>
                 ELSE NextEligible(st.snap, st.order, now)
     IN proc' = [proc EXCEPT ![p] =
          IF rest = <<>> THEN Idle
          ELSE IF ~Usable(st, Head(rest))
          THEN CallUpdateJob([st EXCEPT !.order = Tail(rest)], Head(rest),
                             PreflightPatch("missing_connector"),
                             "scan")
          ELSE [st EXCEPT !.pc = "perm", !.id = Head(rest), !.order = Tail(rest)]]
  /\ UNCHANGED <<now, syncVars, mgVars, appVars, jobs, connectors, granted, ledger, nextJobId>>

\* pumpJobs, after chrome.permissions.contains: the job is failed, or marked
\* running with attempts taken from the snapshot
Perm(p) ==
  /\ proc[p].pc = "perm"
  /\ LET st == proc[p]
         j == MapVal(st.snap.byId, st.id)
     IN proc' = [proc EXCEPT ![p] =
          IF ~granted
          THEN CallUpdateJob(st, st.id,
                             PreflightPatch("missing_host_permission"),
                             "scan")
          ELSE CallUpdateJob(st, st.id, RunningPatch(j), "post")]
  /\ UNCHANGED <<now, syncVars, mgVars, appVars, jobs, connectors, granted, ledger, nextJobId>>

\* updateJob writes the storage back: what it read, with the patched job;
\* it returns without writing when what it read does not hold the job
Write(p) ==
  /\ proc[p].pc = "write"
  /\ LET st == proc[p]
         note == ledger.pending[p]
     IN /\ jobs' = IF MapHas(st.jobs.byId, st.id)
                  THEN UpdateJob(st.jobs, st.id, st.patch)
                  ELSE jobs
        /\ proc' = [proc EXCEPT ![p] =
             [st EXCEPT !.pc = st.next, !.jobs = NoJobs, !.patch = <<>>,
                        !.processed = IF st.next = "scan" THEN @ + 1 ELSE @]]
        /\ ledger' = IF note = NoFail THEN ledger
                     ELSE [ledger EXCEPT
                             !.pending[p] = NoFail,
                             !.lastFail[st.id] =
                                [a |-> note.a, at |-> note.at,
                                 job |-> IF MapHas(jobs'.byId, st.id)
                                         THEN MapVal(jobs'.byId, st.id)
                                         ELSE NoJob]]
  /\ UNCHANGED <<now, syncVars, mgVars, appVars, connectors, granted, nextJobId>>

\* sendWebhook issues the POST
Post(p) ==
  /\ proc[p].pc = "post"
  /\ proc' = [proc EXCEPT ![p].pc = "result"]
  /\ ledger' = [ledger EXCEPT !.posts[proc[p].id] = @ + 1]
  /\ UNCHANGED <<now, syncVars, mgVars, appVars, jobs, connectors, granted, nextJobId>>

\* the POST comes back: 2xx, another status, or fetch throws
Result(p, outcome) ==
  /\ proc[p].pc = "result"
  /\ LET st == proc[p]
         j == MapVal(st.snap.byId, st.id)
     IN IF outcome = "ok"
        THEN /\ proc' = [proc EXCEPT ![p] =
                  CallUpdateJob(st, st.id,
                                [status |-> "done", result |-> 200, error |-> ""],
                                "scan")]
             /\ ledger' = [ledger EXCEPT !.oks[st.id] = @ + 1]
        ELSE /\ proc' = [proc EXCEPT ![p] =
                  CallUpdateJob(st, st.id,
                                FailurePatch(j, IF outcome = "http" THEN "http_500"
                                                ELSE "Failed to fetch", now),
                                "scan")]
             /\ ledger' = [ledger EXCEPT
                             !.fails[st.id] = @ + 1,
                             !.pending[p] = [a |-> ledger.fails[st.id] + 1,
                                             at |-> now]]
  /\ UNCHANGED <<now, syncVars, mgVars, appVars, jobs, connectors, granted, nextJobId>>

\* the browser terminates the service worker: every invocation is gone, the
\* storage stays
Terminate ==
  /\ \E p \in Procs : proc[p].pc # "idle"
  /\ proc' = [p \in Procs |-> Idle]
  /\ ledger' = [ledger EXCEPT !.pending = [p \in Procs |-> NoFail]]
  /\ UNCHANGED <<now, syncVars, mgVars, appVars, jobs, connectors, granted, nextJobId>>

\* the service worker has no invocation in progress
AtRest == \A p \in Procs : proc[p].pc = "idle"

\* one alarm period passes between two invocations
Minute ==
  /\ now < JobsMaxNow
  /\ AtRest
  /\ now' = now + ALARM_PERIOD_MS
  /\ UNCHANGED <<syncVars, jobVars, mgVars, appVars>>

\* router "awt:set_connectors": the connector is disabled or enabled again
SetConnectors ==
  /\ AtRest
  /\ connectors' = ~connectors
  /\ UNCHANGED <<now, syncVars, mgVars, appVars, jobs, granted, proc, ledger, nextJobId>>

\* the user grants or revokes the host permission of the connector's origin
PermissionChange ==
  /\ AtRest
  /\ granted' = ~granted
  /\ UNCHANGED <<now, syncVars, mgVars, appVars, jobs, connectors, proc, ledger, nextJobId>>

-----------------------------------------------------------------------------
(* One MemoryGraph in full (memory-graph.js): nodes with their metadata,   *)
(* edges, adjacency, type and content indices, sessions.                   *)
(* Scores are in hundredths: decay 100 is 1.0, importance 50 is 0.5; edge  *)
(* weights are in tenths. 0 stands for null.                               *)

MaxGraphNodes == 3
MaxGraphEdges == 1
MaxGraphSessions == 2
MaxWeeks == 1
MaxMaintenance == 1
MaxAccess == 1

WEEK_MS == 604800000          \* prune: minAge = 7 * 24 * 60 * 60 * 1000
DECAY_STEP == 1               \* applyDecay(decayAmount = 0.01)
DECAY_FLOOR == 10             \* Math.max(0.1, ...)
DECAY_BOOST == 10             \* touch: this.decay + 0.1
DECAY_FULL == 100             \* this.decay = 1.0; Math.min(1.0, ...)
IMPORTANCE_DEFAULT == 50      \* metadata.importance || 0.5
CONFIDENCE_DEFAULT == 80      \* metadata.confidence || 0.8
WEIGHT_DEFAULT == 10          \* metadata.weight || 1.0
WEIGHT_STEP == 1              \* reinforce(amount = 0.1)
WEIGHT_CAP == 20              \* Math.min(2.0, ...)

Max(a, b) == IF a > b THEN a ELSE b

\* Map.delete
MapDel(m, k) == SelectSeq(m, LAMBDA e : e.k # k)
\* Map.get(k) of a Map of Sets, or the empty set: map.get(k)?.
MapSetOf(m, k) == IF MapHas(m, k) THEN MapVal(m, k) ELSE {}
\* map.get(k)?.add(x): nothing happens when k has no entry
MapAddTo(m, k, x) == IF MapHas(m, k) THEN MapSet(m, k, MapVal(m, k) \cup {x}) ELSE m
\* map.get(k)?.delete(x)
MapDelFrom(m, k, x) == IF MapHas(m, k) THEN MapSet(m, k, MapVal(m, k) \ {x}) ELSE m
\* Array.from(map.values())
MapValues(m) == [i \in 1..Len(m) |-> m[i].v]

\* the contents and the edge type the operations are called with
Contents == {<<65, 97>>, <<66, 66>>, <<67>>}     \* "Aa", "BB", "C"
EdgeTypeUsed == "related_to"
\* metadata.importance of addNode: 0 when none is given
Importances == {0, 30, 90}

\* new MemoryGraph()
NewGraph(t) ==
  [nodes |-> <<>>, edges |-> <<>>, outgoing |-> <<>>, incoming |-> <<>>,
   nodesByType |-> <<>>, edgesByType |-> <<>>, contentIndex |-> <<>>,
   sessions |-> <<>>, activeSession |-> 0,
   totalNodes |-> 0, totalEdges |-> 0, lastModified |-> t]

\* new MemoryNode(type, content, metadata): the constructor stamps the
\* metadata with the current time, a zero access count and no last access
NewNode(id, type, content, importance, sessionId, t) ==
  [id |-> id, type |-> type, content |-> content,
   createdAt |-> t, updatedAt |-> t, accessCount |-> 0, lastAccessedAt |-> 0,
   importance |-> IF importance # 0 THEN importance ELSE IMPORTANCE_DEFAULT,
   confidence |-> CONFIDENCE_DEFAULT, decay |-> DECAY_FULL,
   sessionId |-> sessionId]

\* touch without the cap of Math.min
Touch_NoCap(n, t) ==
  [n EXCEPT !.accessCount = @ + 1, !.lastAccessedAt = t, !.updatedAt = t,
            !.decay = @ + DECAY_BOOST]

\* MemoryNode.touch
Touch(n, t) ==
  [n EXCEPT !.accessCount = @ + 1, !.lastAccessedAt = t, !.updatedAt = t,
            !.decay = Min(DECAY_FULL, @ + DECAY_BOOST)]

\* MemoryNode.toJSON (the fields kept here)
NodeToJSON(n) == n

\* MemoryNode.fromJSON: new MemoryNode(json.type, json.content, json.metadata),
\* then id, importance, confidence, decay, sessionId are restored
NodeFromJSONFull(json, t) ==
  [NewNode(json.id, json.type, json.content, 0, 0, t)
     EXCEPT !.importance = json.importance, !.confidence = json.confidence,
            !.decay = json.decay, !.sessionId = json.sessionId]

\* WorkSession.addNode on the active session, if there is one
LinkToActive(g, nodeId) ==
  IF g.activeSession = 0 THEN g.sessions
  ELSE MapSet(g.sessions, g.activeSession,
              [MapVal(g.sessions, g.activeSession) EXCEPT !.nodeIds = @ \cup {nodeId}])

\* MemoryGraph.addNode: [graph, node, created]
AddNodeFull(g, id, type, content, importance, t) ==
  LET hash == HashContent(type, content)
      hit == MapHas(g.contentIndex, hash) /\ MapHas(g.nodes, MapVal(g.contentIndex, hash))
  IN IF hit
     THEN LET old == MapVal(g.nodes, MapVal(g.contentIndex, hash))
              touched == Touch(old, t)
              node == IF importance # 0 /\ importance > touched.importance
                      THEN [touched EXCEPT !.importance = importance]
                      ELSE touched
          IN [graph |-> [g EXCEPT !.nodes = MapSet(g.nodes, old.id, node)],
              node |-> node, created |-> FALSE]
     ELSE LET node == NewNode(id, type, content, importance, g.activeSession, t)
          IN [graph |-> [g EXCEPT
                 !.nodes = MapSet(g.nodes, id, node),
                 !.contentIndex = MapSet(g.contentIndex, hash, id),
                 !.nodesByType = MapSet(g.nodesByType, type,
                                        MapSetOf(g.nodesByType, type) \cup {id}),
                 !.outgoing = MapSet(g.outgoing, id, {}),
                 !.incoming = MapSet(g.incoming, id, {}),
                 !.sessions = LinkToActive(g, id),
                 !.totalNodes = @ + 1,
                 !.lastModified = t],
              node |-> node, created |-> TRUE]

\* MemoryGraph.updateNode with updates = {content}
UpdateNodeFull(g, nodeId, content, t) ==
  IF ~MapHas(g.nodes, nodeId) THEN g
  ELSE LET node == MapVal(g.nodes, nodeId)
           oldHash == HashContent(node.type, node.content)
           newHash == HashContent(node.type, content)
       IN [g EXCEPT
             !.contentIndex = MapSet(MapDel(g.contentIndex, oldHash), newHash, nodeId),
             !.nodes = MapSet(g.nodes, nodeId,
                              [node EXCEPT !.content = content, !.updatedAt = t]),
             !.lastModified = t]

\* _removeEdgeInternal leaving every bidirectional edge where it is
RemoveEdgeInternal_KeepsBidirectional(g, edgeId) ==
  IF ~MapHas(g.edges, edgeId) \/ MapVal(g.edges, edgeId).bidirectional THEN g
  ELSE LET edge == MapVal(g.edges, edgeId)
       IN [g EXCEPT !.outgoing = MapDelFrom(g.outgoing, edge.sourceId, edgeId),
                    !.incoming = MapDelFrom(g.incoming, edge.targetId, edgeId),
                    !.edgesByType = MapDelFrom(g.edgesByType, edge.type, edgeId),
                    !.edges = MapDel(g.edges, edgeId),
                    !.totalEdges = @ - 1]

\* MemoryGraph._removeEdgeInternal
RemoveEdgeInternal(g, edgeId) ==
  IF ~MapHas(g.edges, edgeId) THEN g
  ELSE LET edge == MapVal(g.edges, edgeId)
           out1 == MapDelFrom(g.outgoing, edge.sourceId, edgeId)
           in1 == MapDelFrom(g.incoming, edge.targetId, edgeId)
           out2 == IF edge.bidirectional THEN MapDelFrom(out1, edge.targetId, edgeId)
                   ELSE out1
           in2 == IF edge.bidirectional THEN MapDelFrom(in1, edge.sourceId, edgeId)
                  ELSE in1
       IN [g EXCEPT !.outgoing = out2, !.incoming = in2,
                    !.edgesByType = MapDelFrom(g.edgesByType, edge.type, edgeId),
                    !.edges = MapDel(g.edges, edgeId),
                    !.totalEdges = @ - 1]

\* the loops of removeNode over the edge ids of a set
RECURSIVE RemoveEdges(_, _)
RemoveEdges(g, edgeIds) ==
  IF edgeIds = {} THEN g
  ELSE LET e == CHOOSE x \in edgeIds : TRUE
       IN RemoveEdges(RemoveEdgeInternal(g, e), edgeIds \ {e})

\* removeNode without its loop over the incoming edges
RemoveNodeFull_KeepsIncoming(g, nodeId, t) ==
  IF ~MapHas(g.nodes, nodeId) THEN [graph |-> g, result |-> FALSE]
  ELSE LET node == MapVal(g.nodes, nodeId)
           g1 == RemoveEdges(g, MapSetOf(g.outgoing, nodeId))
           hash == HashContent(node.type, node.content)
       IN [graph |-> [g1 EXCEPT
                        !.contentIndex = MapDel(g1.contentIndex, hash),
                        !.nodesByType = MapDelFrom(g1.nodesByType, node.type, nodeId),
                        !.outgoing = MapDel(g1.outgoing, nodeId),
                        !.incoming = MapDel(g1.incoming, nodeId),
                        !.sessions = [i \in 1..Len(g1.sessions) |->
                                        [g1.sessions[i] EXCEPT !.v.nodeIds = @ \ {nodeId}]],
                        !.nodes = MapDel(g1.nodes, nodeId),
                        !.totalNodes = @ - 1,
                        !.lastModified = t],
           result |-> TRUE]

\* MemoryGraph.removeNode: [graph, result]
RemoveNodeFull(g, nodeId, t) ==
  IF ~MapHas(g.nodes, nodeId) THEN [graph |-> g, result |-> FALSE]
  ELSE LET node == MapVal(g.nodes, nodeId)
           g1 == RemoveEdges(g, MapSetOf(g.outgoing, nodeId) \cup MapSetOf(g.incoming, nodeId))
           hash == HashContent(node.type, node.content)
       IN [graph |-> [g1 EXCEPT
                        !.contentIndex = MapDel(g1.contentIndex, hash),
                        !.nodesByType = MapDelFrom(g1.nodesByType, node.type, nodeId),
                        !.outgoing = MapDel(g1.outgoing, nodeId),
                        !.incoming = MapDel(g1.incoming, nodeId),
                        !.sessions = [i \in 1..Len(g1.sessions) |->
                                        [g1.sessions[i] EXCEPT !.v.nodeIds = @ \ {nodeId}]],
                        !.nodes = MapDel(g1.nodes, nodeId),
                        !.totalNodes = @ - 1,
                        !.lastModified = t],
           result |-> TRUE]


\* new MemoryEdge(sourceId, targetId, type, metadata)
NewEdge(id, sourceId, targetId, type, bidirectional, t) ==
  [id |-> id, sourceId |-> sourceId, targetId |-> targetId, type |-> type,
   weight |-> WEIGHT_DEFAULT, bidirectional |-> bidirectional,
   createdAt |-> t, updatedAt |-> t]

\* MemoryEdge.fromJSON: the constructor stamps the metadata with the current
\* time, then id, weight, bidirectional are restored
EdgeFromJSON(json, t) ==
  [NewEdge(json.id, json.sourceId, json.targetId, json.type, FALSE, t)
     EXCEPT !.weight = json.weight, !.bidirectional = json.bidirectional]

\* MemoryGraph.findEdge: the ids of the matching edges among outgoing[sourceId]
FindEdge(g, sourceId, targetId, type) ==
  {e \in MapSetOf(g.outgoing, sourceId) :
     /\ MapHas(g.edges, e)
     /\ MapVal(g.edges, e).targetId = targetId
     /\ MapVal(g.edges, e).type = type}

\* the adjacency and type index entries of an edge, as addEdge, fromJSON and
\* _mergeGraph make them
IndexEdge(g, edge) ==
  LET out1 == MapAddTo(g.outgoing, edge.sourceId, edge.id)
      in1 == MapAddTo(g.incoming, edge.targetId, edge.id)
  IN [g EXCEPT
        !.outgoing = IF edge.bidirectional THEN MapAddTo(out1, edge.targetId, edge.id)
                     ELSE out1,
        !.incoming = IF edge.bidirectional THEN MapAddTo(in1, edge.sourceId, edge.id)
                     ELSE in1,
        !.edgesByType = MapSet(g.edgesByType, edge.type,
                               MapSetOf(g.edgesByType, edge.type) \cup {edge.id})]

\* MemoryGraph.addEdge: [graph, created, edge], edge the id of the edge that is
\* returned, 0 for null
AddEdgeFull(g, id, sourceId, targetId, type, bidirectional, t) ==
  IF ~MapHas(g.nodes, sourceId) \/ ~MapHas(g.nodes, targetId)
  THEN [graph |-> g, created |-> FALSE, edge |-> 0]
  ELSE LET found == FindEdge(g, sourceId, targetId, type)
       IN IF found # {}
          THEN LET e == MapVal(g.edges, CHOOSE x \in found : TRUE)
               IN [graph |-> [g EXCEPT !.edges = MapSet(g.edges, e.id,
                                  [e EXCEPT !.weight = Min(WEIGHT_CAP, @ + WEIGHT_STEP),
                                            !.updatedAt = t])],
                   created |-> FALSE, edge |-> e.id]
          ELSE LET edge == NewEdge(id, sourceId, targetId, type, bidirectional, t)
                   g1 == IndexEdge([g EXCEPT !.edges = MapSet(g.edges, id, edge)], edge)
               IN [graph |-> [g1 EXCEPT !.totalEdges = @ + 1, !.lastModified = t],
                   created |-> TRUE, edge |-> id]

\* new WorkSession(metadata)
NewSession(id, t) ==
  [id |-> id, startedAt |-> t, endedAt |-> 0, nodeIds |-> {}, isActive |-> TRUE]

\* WorkSession.end
EndOf(s, t) == [s EXCEPT !.endedAt = t, !.isActive = FALSE]

\* WorkSession.fromJSON
SessionFromJSON(json) == json

\* MemoryGraph.endSession
EndSessionFull(g, t) ==
  IF g.activeSession = 0 THEN g
  ELSE [g EXCEPT !.sessions = MapSet(g.sessions, g.activeSession,
                                     EndOf(MapVal(g.sessions, g.activeSession), t)),
                 !.activeSession = 0]

\* MemoryGraph.startSession
StartSessionFull(g, id, t) ==
  LET g1 == EndSessionFull(g, t)
  IN [g1 EXCEPT !.sessions = MapSet(g1.sessions, id, NewSession(id, t)),
                !.activeSession = id]

\* MemoryGraph.applyDecay()
ApplyDecayFull(g) ==
  [g EXCEPT !.nodes = [i \in 1..Len(g.nodes) |->
      [g.nodes[i] EXCEPT !.v.decay = Max(DECAY_FLOOR, @ - DECAY_STEP)]]]

\* prune: the nodes older than minAge; which of them score below minRelevance
\* is left open (the score is a floating-point expression of Math.pow, exp, log)
Prunable(g, t) == {id \in MapKeys(g.nodes) : t - MapVal(g.nodes, id).createdAt > WEEK_MS}

\* the loop of prune over toRemove
RECURSIVE RemoveNodes(_, _, _)
RemoveNodes(g, nodeIds, t) ==
  IF nodeIds = {} THEN g
  ELSE LET n == CHOOSE x \in nodeIds : TRUE
       IN RemoveNodes(RemoveNodeFull(g, n, t).graph, nodeIds \ {n}, t)

\* MemoryGraph.toJSON
ToJSONFull(g) ==
  [nodes |-> [i \in 1..Len(g.nodes) |-> NodeToJSON(g.nodes[i].v)],
   edges |-> MapValues(g.edges),
   sessions |-> MapValues(g.sessions),
   stats |-> [totalNodes |-> g.totalNodes, totalEdges |-> g.totalEdges,
              lastModified |-> g.lastModified]]

\* MemoryGraph.fromJSON, the three restore loops
RECURSIVE RestoreNodes(_, _, _)
RestoreNodes(g, jsonNodes, t) ==
  IF jsonNodes = <<>> THEN g
  ELSE LET node == NodeFromJSONFull(Head(jsonNodes), t)
       IN RestoreNodes(
            [g EXCEPT !.nodes = MapSet(g.nodes, node.id, node),
                      !.contentIndex = MapSet(g.contentIndex,
                                              HashContent(node.type, node.content), node.id),
                      !.nodesByType = MapSet(g.nodesByType, node.type,
                                             MapSetOf(g.nodesByType, node.type) \cup {node.id}),
                      !.outgoing = MapSet(g.outgoing, node.id, {}),
                      !.incoming = MapSet(g.incoming, node.id, {})],
            Tail(jsonNodes), t)

RECURSIVE RestoreEdges(_, _, _)
RestoreEdges(g, jsonEdges, t) ==
  IF jsonEdges = <<>> THEN g
  ELSE LET edge == EdgeFromJSON(Head(jsonEdges), t)
       IN RestoreEdges(IndexEdge([g EXCEPT !.edges = MapSet(g.edges, edge.id, edge)], edge),
                       Tail(jsonEdges), t)

RECURSIVE RestoreSessions(_, _)
RestoreSessions(g, jsonSessions) ==
  IF jsonSessions = <<>> THEN g
  ELSE LET s == SessionFromJSON(Head(jsonSessions))
       IN RestoreSessions([g EXCEPT !.sessions = MapSet(g.sessions, s.id, s)],
                          Tail(jsonSessions))

\* MemoryGraph.fromJSON
FromJSONFull(json, t) ==
  LET g == RestoreSessions(
             RestoreEdges(RestoreNodes(NewGraph(t), json.nodes, t), json.edges, t),
             json.sessions)
  IN [g EXCEPT !.lastModified = json.stats.lastModified,
               !.totalNodes = Len(g.nodes), !.totalEdges = Len(g.edges)]

\* nothing was called on the graph yet
\* (edges: how many edges the operation removed; sessions: how many sessions
\* it took the node out of; pruned: what prune returned; depth, nodes: the
\* depth getSubgraph was called with and the ids of the nodes it returned)
NoOp == [name |-> "none", id |-> 0, created |-> FALSE, result |-> FALSE,
         content |-> <<>>, importance |-> 0, edges |-> 0, sessions |-> 0,
         pruned |-> 0, depth |-> 0, nodes |-> <<>>, source |-> 0, target |-> 0]
NoIds == [node |-> 1, edge |-> 1, session |-> 1, maintenance |-> 0]
\* the IndexedDB stores of memory-store.js, empty
NoDisk == [nodes |-> <<>>, edges |-> <<>>, sessions |-> <<>>, lastModified |-> 0]
RemoteSessionId == MaxGraphSessions + 1
GraphMaxNow == StartTime + MaxWeeks * (WEEK_MS + 1)

\* graph.addNode(type, content, {importance})
GAddNode(content, importance) ==
  /\ ids.node <= MaxGraphNodes
  /\ LET r == AddNodeFull(mg, ids.node, NodeType, content, importance, now)
     IN /\ r.node.accessCount <= MaxAccess
        /\ mg' = r.graph
        /\ ids' = IF r.created THEN [ids EXCEPT !.node = @ + 1] ELSE ids
        /\ op' = [NoOp EXCEPT !.name = "addNode", !.id = r.node.id,
                              !.created = r.created, !.content = content,
                              !.importance = importance]
  /\ UNCHANGED <<now, syncVars, jobVars, appVars, disk>>

\* graph.updateNode(nodeId, {content}) on a live node
GUpdateNode(nodeId, content) ==
  /\ MapHas(mg.nodes, nodeId)
  /\ mg' = UpdateNodeFull(mg, nodeId, content, now)
  /\ op' = [NoOp EXCEPT !.name = "updateNode", !.id = nodeId, !.content = content]
  /\ UNCHANGED <<now, syncVars, jobVars, appVars, disk, ids>>

\* graph.removeNode(nodeId), on a live node or not
GRemoveNode(nodeId) ==
  /\ LET r == RemoveNodeFull(mg, nodeId, now)
     IN /\ mg' = r.graph
        /\ op' = [NoOp EXCEPT !.name = "removeNode", !.id = nodeId, !.result = r.result,
                              !.edges = Len(mg.edges) - Len(r.graph.edges),
                              !.sessions = Cardinality({i \in 1..Len(mg.sessions) :
                                              nodeId \in mg.sessions[i].v.nodeIds})]
  /\ UNCHANGED <<now, syncVars, jobVars, appVars, disk, ids>>

\* graph.addEdge(sourceId, targetId, type, {bidirectional})
GAddEdge(sourceId, targetId, bidirectional) ==
  /\ ids.edge <= MaxGraphEdges
  /\ LET r == AddEdgeFull(mg, ids.edge, sourceId, targetId, EdgeTypeUsed, bidirectional, now)
     IN /\ \A i \in 1..Len(r.graph.edges) :
             r.graph.edges[i].v.weight <= WEIGHT_DEFAULT + MaxAccess * WEIGHT_STEP
        /\ mg' = r.graph
        /\ ids' = IF r.created THEN [ids EXCEPT !.edge = @ + 1] ELSE ids
        /\ op' = [NoOp EXCEPT !.name = "addEdge", !.created = r.created]
  /\ UNCHANGED <<now, syncVars, jobVars, appVars, disk>>

\* graph.addEdge(sourceId, targetId, type, {bidirectional}) with its arguments
\* and the edge it returns kept; an edge that exists may be reinforced when no
\* further edge can be created
GAddEdgeCall(sourceId, targetId, bidirectional) ==
  /\ LET r == AddEdgeFull(mg, ids.edge, sourceId, targetId, EdgeTypeUsed, bidirectional, now)
     IN /\ r.created => ids.edge <= MaxGraphEdges
        /\ \A i \in 1..Len(r.graph.edges) :
             r.graph.edges[i].v.weight <= WEIGHT_DEFAULT + MaxAccess * WEIGHT_STEP
        /\ mg' = r.graph
        /\ ids' = IF r.created THEN [ids EXCEPT !.edge = @ + 1] ELSE ids
        /\ op' = [NoOp EXCEPT !.name = "addEdge", !.id = r.edge, !.created = r.created,
                              !.source = sourceId, !.target = targetId]
  /\ UNCHANGED <<now, syncVars, jobVars, appVars, disk>>

\* graph._removeEdgeInternal(edgeId), as the handler of edge_removed calls it
GRemoveEdge(edgeId) ==
  /\ MapHas(mg.edges, edgeId)
  /\ mg' = RemoveEdgeInternal(mg, edgeId)
  /\ op' = [NoOp EXCEPT !.name = "removeEdge", !.id = edgeId]
  /\ UNCHANGED <<now, syncVars, jobVars, appVars, disk, ids>>

\* graph.startSession()
GStartSession ==
  /\ ids.session <= MaxGraphSessions
  /\ mg' = StartSessionFull(mg, ids.session, now)
  /\ ids' = [ids EXCEPT !.session = @ + 1]
  /\ op' = [NoOp EXCEPT !.name = "startSession", !.id = ids.session]
  /\ UNCHANGED <<now, syncVars, jobVars, appVars, disk>>

\* graph.endSession() while a session is active
GEndSession ==
  /\ mg.activeSession # 0
  /\ mg' = EndSessionFull(mg, now)
  /\ op' = [NoOp EXCEPT !.name = "endSession", !.id = mg.activeSession]
  /\ UNCHANGED <<now, syncVars, jobVars, appVars, disk, ids>>

\* Memory.maintenance: graph.applyDecay(), then graph.prune() removing the
\* old nodes that score too low
GMaintenance(low) ==
  /\ ids.maintenance < MaxMaintenance
  /\ LET g1 == ApplyDecayFull(mg)
     IN /\ low \subseteq Prunable(g1, now)
        /\ mg' = RemoveNodes(g1, low, now)
        /\ op' = [NoOp EXCEPT !.name = "maintenance", !.pruned = Cardinality(low),
                              !.edges = Len(mg.edges) - Len(RemoveNodes(g1, low, now).edges)]
  /\ ids' = [ids EXCEPT !.maintenance = @ + 1]
  /\ UNCHANGED <<now, syncVars, jobVars, appVars, disk>>

\* graph.applyDecay()
GApplyDecay ==
  /\ mg' = ApplyDecayFull(mg)
  /\ op' = [NoOp EXCEPT !.name = "applyDecay"]
  /\ UNCHANGED <<now, syncVars, jobVars, appVars, disk, ids>>

\* more than minAge passes
GWeek ==
  /\ now < GraphMaxNow
  /\ now' = now + WEEK_MS + 1
  /\ UNCHANGED <<syncVars, jobVars, mgVars, appVars>>

\* IndexedDB put of every record of a list, by id
RECURSIVE PutAll(_, _)
PutAll(store, records) ==
  IF records = <<>> THEN store
  ELSE PutAll(MapSet(store, Head(records).id, Head(records)), Tail(records))

\* IndexedDB getAll: the records in key order
RECURSIVE GetAll(_)
GetAll(store) ==
  IF store = <<>> THEN <<>>
  ELSE LET k == CHOOSE x \in MapKeys(store) : \A y \in MapKeys(store) : x <= y
       IN <<MapVal(store, k)>> \o GetAll(MapDel(store, k))

\* memoryStore.saveGraph(graph)
SaveGraph(d, g) ==
  [nodes |-> PutAll(d.nodes, ToJSONFull(g).nodes),
   edges |-> PutAll(d.edges, ToJSONFull(g).edges),
   sessions |-> PutAll(d.sessions, ToJSONFull(g).sessions),
   lastModified |-> g.lastModified]

\* memoryStore.loadGraph()
LoadGraph(d, t) ==
  FromJSONFull([nodes |-> GetAll(d.nodes), edges |-> GetAll(d.edges),
                sessions |-> GetAll(d.sessions),
                stats |-> [lastModified |-> d.lastModified]], t)

\* Memory._mergeGraph, its three loops
RECURSIVE MergeNodes(_, _)
MergeNodes(g, nodes) ==
  IF nodes = <<>> THEN g
  ELSE LET node == Head(nodes)
       IN MergeNodes(
            IF MapHas(g.nodes, node.id) THEN g
            ELSE [g EXCEPT !.nodes = MapSet(g.nodes, node.id, node),
                           !.contentIndex = MapSet(g.contentIndex,
                               HashContent(node.type, node.content), node.id),
                           !.nodesByType = MapSet(g.nodesByType, node.type,
                               MapSetOf(g.nodesByType, node.type) \cup {node.id}),
                           !.outgoing = MapSet(g.outgoing, node.id, {}),
                           !.incoming = MapSet(g.incoming, node.id, {})],
            Tail(nodes))

RECURSIVE MergeEdges(_, _)
MergeEdges(g, edges) ==
  IF edges = <<>> THEN g
  ELSE LET edge == Head(edges)
       IN MergeEdges(
            IF MapHas(g.edges, edge.id) THEN g
            ELSE IndexEdge([g EXCEPT !.edges = MapSet(g.edges, edge.id, edge)], edge),
            Tail(edges))

RECURSIVE MergeSessions(_, _)
MergeSessions(g, sessions) ==
  IF sessions = <<>> THEN g
  ELSE LET s == Head(sessions)
       IN MergeSessions(
            IF MapHas(g.sessions, s.id) THEN g
            ELSE [g EXCEPT !.sessions = MapSet(g.sessions, s.id, s)],
            Tail(sessions))

\* Memory._mergeGraph(sourceGraph)
MergeGraph(g, source) ==
  LET g1 == MergeSessions(
              MergeEdges(MergeNodes(g, MapValues(source.nodes)), MapValues(source.edges)),
              MapValues(source.sessions))
  IN [g1 EXCEPT !.totalNodes = Len(g1.nodes), !.totalEdges = Len(g1.edges)]

\* the sync layer's persist: memoryStore.saveGraph(this.graph)
GSave ==
  /\ disk' = SaveGraph(disk, mg)
  /\ disk' # disk
  /\ op' = [NoOp EXCEPT !.name = "save"]
  /\ UNCHANGED <<now, syncVars, jobVars, appVars, mg, ids>>

\* the page is loaded again: a new graph singleton, then Memory.init merges
\* the persisted graph if it has nodes and starts a session
GReload ==
  /\ ids.session <= MaxGraphSessions
  /\ LET loaded == LoadGraph(disk, now)
         g == IF Len(loaded.nodes) > 0 THEN MergeGraph(NewGraph(now), loaded)
              ELSE NewGraph(now)
     IN mg' = StartSessionFull(g, ids.session, now)
  /\ ids' = [ids EXCEPT !.session = @ + 1]
  /\ op' = [NoOp EXCEPT !.name = "reload", !.id = ids.session]
  /\ UNCHANGED <<now, syncVars, jobVars, appVars, disk>>

\* _handleRemoteSessionStarted: another tab started a session
GRemoteSessionStarted ==
  /\ ~MapHas(mg.sessions, RemoteSessionId)
  /\ mg' = [mg EXCEPT !.sessions =
              MapSet(mg.sessions, RemoteSessionId,
                     SessionFromJSON(NewSession(RemoteSessionId, now)))]
  /\ op' = [NoOp EXCEPT !.name = "sessionStarted", !.id = RemoteSessionId]
  /\ UNCHANGED <<now, syncVars, jobVars, appVars, disk, ids>>

\* _handleRemoteSessionEnded for a session of the table
GRemoteSessionEnded(sessionId) ==
  /\ MapHas(mg.sessions, sessionId)
  /\ MapVal(mg.sessions, sessionId).isActive
  /\ mg' = [mg EXCEPT !.sessions =
              MapSet(mg.sessions, sessionId, EndOf(MapVal(mg.sessions, sessionId), now))]
  /\ op' = [NoOp EXCEPT !.name = "sessionEnded", !.id = sessionId]
  /\ UNCHANGED <<now, syncVars, jobVars, appVars, disk, ids>>

\* a graph nothing was done to, the stores empty
GraphAtRest ==
  /\ mg = NewGraph(StartTime)
  /\ disk = NoDisk
  /\ op = NoOp
  /\ ids = NoIds

-----------------------------------------------------------------------------
(* Graph updates between tabs (memory-sync.js, Memory), each tab holding   *)
(* its MemoryGraph in full                                                 *)

\* _applyNodeData on the graph in full: the node replaces any node of its id,
\* the indices get their entries, the stats are left alone
ApplyNodeDataFull(g, nodeData, t) ==
  LET node == NodeFromJSONFull(nodeData, t)
  IN [g EXCEPT
        !.nodes = MapSet(g.nodes, node.id, node),
        !.contentIndex = MapSet(g.contentIndex,
                                HashContent(node.type, node.content), node.id),
        !.nodesByType = MapSet(g.nodesByType, node.type,
                               MapSetOf(g.nodesByType, node.type) \cup {node.id}),
        !.outgoing = IF MapHas(g.outgoing, node.id) THEN g.outgoing
                     ELSE MapSet(g.outgoing, node.id, {}),
        !.incoming = IF MapHas(g.incoming, node.id) THEN g.incoming
                     ELSE MapSet(g.incoming, node.id, {})]

\* _handleRemoteNodeAdded: [graph, applied]
HandleRemoteNodeAddedFull(g, nodeData, t) ==
  IF MapHas(g.nodes, nodeData.id)
  THEN IF nodeData.updatedAt > MapVal(g.nodes, nodeData.id).updatedAt
       THEN [graph |-> ApplyNodeDataFull(g, nodeData, t), applied |-> TRUE]
       ELSE [graph |-> g, applied |-> FALSE]
  ELSE [graph |-> ApplyNodeDataFull(g, nodeData, t), applied |-> TRUE]

\* _handleRemoteNodeUpdated: [graph, applied]
HandleRemoteNodeUpdated(g, nodeData, t) ==
  IF MapHas(g.nodes, nodeData.id)
  THEN IF nodeData.updatedAt >= MapVal(g.nodes, nodeData.id).updatedAt
       THEN [graph |-> ApplyNodeDataFull(g, nodeData, t), applied |-> TRUE]
       ELSE [graph |-> g, applied |-> FALSE]
  ELSE [graph |-> g, applied |-> FALSE]

\* _handleRemoteNodeRemoved: [graph, applied]
HandleRemoteNodeRemoved(g, nodeId, t) ==
  LET r == RemoveNodeFull(g, nodeId, t)
  IN [graph |-> r.graph, applied |-> r.result]

\* MemoryEdge.toJSON (the fields kept here)
EdgeToJSON(e) == e

\* _applyEdgeData: the edge is stored; the adjacency sets of the nodes that
\* exist get its id
ApplyEdgeData(g, edgeData, t) ==
  LET edge == EdgeFromJSON(edgeData, t)
  IN IndexEdge([g EXCEPT !.edges = MapSet(g.edges, edge.id, edge)], edge)

\* _handleRemoteEdgeAdded: [graph, applied]
HandleRemoteEdgeAdded(g, edgeData, t) ==
  IF ~MapHas(g.edges, edgeData.id)
  THEN [graph |-> ApplyEdgeData(g, edgeData, t), applied |-> TRUE]
  ELSE [graph |-> g, applied |-> FALSE]

\* _handleMessage for the graph updates of another tab: [graph, applied]
HandleGraphUpdate(g, m, t) ==
  CASE m.type = MessageType.NODE_ADDED -> HandleRemoteNodeAddedFull(g, m.payload, t)
    [] m.type = MessageType.NODE_UPDATED -> HandleRemoteNodeUpdated(g, m.payload, t)
    [] m.type = MessageType.NODE_REMOVED ->
         HandleRemoteNodeRemoved(g, m.payload.nodeId, t)
    [] m.type = MessageType.EDGE_ADDED -> HandleRemoteEdgeAdded(g, m.payload, t)

\* a tab after Memory.init() that found `leader` leading: graph.startSession
\* was called on its new graph
Member(t, leader) ==
  [MemorySync EXCEPT !.phase = "ready", !.leaderId = leader,
                     !.isLeader = (t = leader), !.heartbeatInterval = (t = leader),
                     !.leaderLastSeen = StartTime,
                     !.graph = StartSessionFull(NewGraph(StartTime), t, StartTime)]

\* Memory.addNode: graph.addNode, then sync.broadcastNodeAdded
MAddNode(t, content) ==
  /\ nextNodeId <= MaxNodes
  /\ Room(t)
  /\ LET r == AddNodeFull(sync[t].graph, nextNodeId, NodeType, content, 0, now)
     IN /\ r.node.accessCount <= MaxAccess
        /\ sync' = [sync EXCEPT ![t] = SchedulePersist([@ EXCEPT !.graph = r.graph])]
        /\ chan' = Bcast(chan, t, <<Msg(MessageType.NODE_ADDED, t, NoTab,
                                        NodeToJSON(r.node))>>)
        /\ nextNodeId' = IF r.created THEN nextNodeId + 1 ELSE nextNodeId
        /\ op' = [NoOp EXCEPT !.name = "addNode", !.id = r.node.id]
  /\ UNCHANGED <<now, saves, lost, hist, lastSync, missed>>
  /\ UNCHANGED <<jobVars, appVars, mg, disk, ids>>

\* Memory.removeNode: graph.removeNode, then sync.broadcastNodeRemoved if a
\* node was removed
MRemoveNode(t, nodeId) ==
  /\ Room(t)
  /\ LET r == RemoveNodeFull(sync[t].graph, nodeId, now)
     IN /\ sync' = [sync EXCEPT ![t] =
                      IF r.result THEN SchedulePersist([@ EXCEPT !.graph = r.graph])
                      ELSE @]
        /\ chan' = IF r.result
                   THEN Bcast(chan, t, <<Msg(MessageType.NODE_REMOVED, t, NoTab,
                                             [nodeId |-> nodeId])>>)
                   ELSE chan
        /\ op' = [NoOp EXCEPT !.name = "removeNode", !.id = nodeId,
                              !.result = r.result]
  /\ UNCHANGED <<now, saves, lost, hist, lastSync, missed, nextNodeId>>
  /\ UNCHANGED <<jobVars, appVars, mg, disk, ids>>

\* Memory.addEdge: graph.addEdge, then sync.broadcastEdgeAdded if an edge
\* came back
MAddEdge(t, sourceId, targetId) ==
  /\ ids.edge <= MaxGraphEdges
  /\ Room(t)
  /\ LET r == AddEdgeFull(sync[t].graph, ids.edge, sourceId, targetId,
                          EdgeTypeUsed, FALSE, now)
     IN /\ r.edge # 0
        /\ sync' = [sync EXCEPT ![t] = SchedulePersist([@ EXCEPT !.graph = r.graph])]
        /\ chan' = Bcast(chan, t, <<Msg(MessageType.EDGE_ADDED, t, NoTab,
                                        EdgeToJSON(MapVal(r.graph.edges, r.edge)))>>)
        /\ ids' = IF r.created THEN [ids EXCEPT !.edge = @ + 1] ELSE ids
        /\ op' = [NoOp EXCEPT !.name = "addEdge", !.id = r.edge, !.created = r.created]
  /\ UNCHANGED <<now, saves, lost, hist, lastSync, missed, nextNodeId>>
  /\ UNCHANGED <<jobVars, appVars, mg, disk>>

\* sync.broadcastNodeUpdated(node) with a node of the tab's graph
BroadcastNodeUpdated(t, nodeId) ==
  /\ MapHas(sync[t].graph.nodes, nodeId)
  /\ Room(t)
  /\ sync' = [sync EXCEPT ![t] = SchedulePersist(@)]
  /\ chan' = Bcast(chan, t, <<Msg(MessageType.NODE_UPDATED, t, NoTab,
                                  NodeToJSON(MapVal(sync[t].graph.nodes, nodeId)))>>)
  /\ op' = [NoOp EXCEPT !.name = "broadcastNodeUpdated", !.id = nodeId]
  /\ UNCHANGED <<now, saves, lost, hist, lastSync, missed, nextNodeId>>
  /\ UNCHANGED <<jobVars, appVars, mg, disk, ids>>

\* channel.onmessage: the oldest graph update of tab s reaches tab r
DeliverUpdate(s, r) ==
  /\ s # r
  /\ chan[<<s, r>>] # <<>>
  /\ ChannelOpen(sync[r])
  /\ LET m == Head(chan[<<s, r>>])
         h == HandleGraphUpdate(sync[r].graph, m, now)
     IN /\ sync' = [sync EXCEPT ![r].graph = h.graph]
        /\ chan' = [chan EXCEPT ![<<s, r>>] = Tail(@)]
        /\ op' = [NoOp EXCEPT !.name = m.type, !.id = r, !.result = h.applied]
  /\ UNCHANGED <<now, saves, lost, hist, lastSync, missed, nextNodeId>>
  /\ UNCHANGED <<jobVars, appVars, mg, disk, ids>>

-----------------------------------------------------------------------------
(* Saved conversations (storage.js). Strings are sequences of characters,  *)
(* a URL is its pathname and search under the one origin of the site, an   *)
(* object is a function from its keys. A property that may be missing     *)
(* (tags, pinned, notes) is a sequence of at most one value, Undefined     *)
(* when missing; a missing string reads as "", a missing time as 0.        *)

MaxSaved == 1      \* maxSavedConversations ranges over 1..MaxSaved
MaxConvTicks == 1  \* the clock runs this many ms past StartTime
MaxRequests == 3   \* conversation requests served in one run
MaxListed == 3     \* conversations in a store that is searched
MaxSearches == 1   \* searches of one store in one run
MaxListWeeks == 2  \* a searched conversation is at most this many weeks old

MAX_ITEMS == 80
MAX_BYTES == 8000000
LIST_LIMIT == 200
TEXT_HEAD == 8000
PHRASE_TITLE == 40
PHRASE_TEXT == 10
TOKEN_TITLE == 18
TOKEN_TAG == 14
TOKEN_URL == 4
TOKEN_TEXT == 4
PREFIX_MIN == 3
PREFIX_TITLE == 6
PREFIX_TEXT == 2
BOOST_MAX == 20
PINNED_BONUS == 5

Undefined == <<>>
Some(v) == <<v>>

Lowers == <<"a","b","c","d","e","f","g","h","i","j","k","l","m",
            "n","o","p","q","r","s","t","u","v","w","x","y","z">>
Uppers == <<"A","B","C","D","E","F","G","H","I","J","K","L","M",
            "N","O","P","Q","R","S","T","U","V","W","X","Y","Z">>
Digits == {"0","1","2","3","4","5","6","7","8","9"}

\* [a-zA-Z0-9_]
WordChar(c) ==
  \/ \E k \in 1..Len(Lowers) : c = Lowers[k] \/ c = Uppers[k]
  \/ c \in Digits
  \/ c = "_"

\* String.prototype.toLowerCase
ToLowerCase(s) ==
  [i \in 1..Len(s) |->
     IF \E k \in 1..Len(Uppers) : Uppers[k] = s[i]
     THEN Lowers[CHOOSE k \in 1..Len(Uppers) : Uppers[k] = s[i]]
     ELSE s[i]]

\* String.prototype.includes
Includes(s, t) ==
  \E i \in 0..(Len(s) - Len(t)) : SubSeq(s, i + 1, i + Len(t)) = t

\* String.prototype.trim
RECURSIVE StrTrim(_)
StrTrim(s) ==
  IF s = <<>> THEN s
  ELSE IF Head(s) \in {" ", "\n"} THEN StrTrim(Tail(s))
  ELSE IF s[Len(s)] \in {" ", "\n"} THEN StrTrim(SubSeq(s, 1, Len(s) - 1))
  ELSE s

\* String.prototype.slice(0, n)
StrHead(s, n) == SubSeq(s, 1, Min(Len(s), n))

\* the keys of an object, a read of an id that yields undefined for a missing
\* key, an assignment and a delete
ObjHas(o, k) == k \in DOMAIN o
ObjGet(o, k) == IF k \in DOMAIN o THEN o[k] ELSE Undefined
ObjSet(o, k, v) == [x \in (DOMAIN o) \cup {k} |-> IF x = k THEN v ELSE o[x]]
ObjDel(o, k) == [x \in (DOMAIN o) \ {k} |-> o[x]]
NoKeys == [x \in {} |-> Undefined]

\* Array.prototype.filter(x => x !== id)
Without(order, id) == SelectSeq(order, LAMBDA x : x # id)

\* `{}` as a conversation, and { byId: {}, order: [], urlToId: {} }
NoConversation ==
  [id |-> <<>>, url |-> <<>>, title |-> <<>>, text |-> <<>>,
   tags |-> Undefined, pinned |-> Undefined, notes |-> Undefined,
   createdAt |-> 0, updatedAt |-> 0]
NoStore == [byId |-> NoKeys, order |-> <<>>, urlToId |-> NoKeys]

\* url.pathname: the URL up to its search or hash
Pathname(u) ==
  LET cut == {i \in 1..Len(u) : u[i] \in {"?", "#"}}
  IN  IF cut = {} THEN u
      ELSE SubSeq(u, 1, (CHOOSE i \in cut : \A j \in cut : i <= j) - 1)

\* normalizeUrl: origin and pathname, "" for what is not a URL
NormalizeUrl(u) == Pathname(u)

\* stableIdFromUrl: c_<id> for the first /c/<id> of the pathname, else null
StableIdFromUrl(u) ==
  LET p == Pathname(u)
      IdChar(c) == WordChar(c) \/ c = "-"
      at == {i \in 1..(Len(p) - 3) :
               SubSeq(p, i, i + 2) = <<"/", "c", "/">> /\ IdChar(p[i + 3])}
  IN  IF at = {} THEN Undefined
      ELSE
        LET i == CHOOSE x \in at : \A y \in at : x <= y
            last == CHOOSE j \in (i + 3)..Len(p) :
                      /\ \A k \in (i + 3)..j : IdChar(p[k])
                      /\ j = Len(p) \/ ~IdChar(p[j + 1])
        IN  <<"c", "_">> \o SubSeq(p, i + 3, last)

\* approxSize: JSON.stringify(store).length, counted here as the characters
\* of the strings of the stored conversations
RECURSIVE SumLen(_)
SumLen(strs) == IF strs = <<>> THEN 0 ELSE Len(Head(strs)) + SumLen(Tail(strs))
RECURSIVE ApproxSize(_)
ApproxSize(store) ==
  IF store.order = <<>> THEN 0
  ELSE
    LET id == Head(store.order)
        strs == IF ~ObjHas(store.byId, id) THEN <<>>
                ELSE LET c == store.byId[id]
                     IN  <<c.id, c.url, c.title, c.text>> \o c.notes \o c.tags[1]
    IN  SumLen(strs) + ApproxSize([store EXCEPT !.order = Tail(@)])

\* the migration leaving `from` in order
Migrate_KeepsOrder(store, from, to) ==
  LET byId == IF ObjHas(store.byId, from) /\ ~ObjHas(store.byId, to)
              THEN ObjSet(store.byId, to, store.byId[from])
              ELSE store.byId
  IN  [store EXCEPT !.byId = ObjDel(byId, from)]

\* the record under `from` moves under `to` unless `to` has one, and `from`
\* leaves byId and order
Migrate(store, from, to) ==
  LET byId == IF ObjHas(store.byId, from) /\ ~ObjHas(store.byId, to)
              THEN ObjSet(store.byId, to, store.byId[from])
              ELSE store.byId
  IN  [store EXCEPT !.byId = ObjDel(byId, from), !.order = Without(@, from)]

\* while (store.order.length > maxItems) drop the last of order
RECURSIVE EvictItems(_, _)
EvictItems(store, maxItems) ==
  IF Len(store.order) > maxItems
  THEN LET drop == store.order[Len(store.order)]
       IN  EvictItems([store EXCEPT !.order = SubSeq(@, 1, Len(@) - 1),
                                    !.byId = ObjDel(@, drop)], maxItems)
  ELSE store

\* while (approxSize(store) > maxBytes && store.order.length > 1) drop the last
RECURSIVE EvictBytes(_, _)
EvictBytes(store, maxBytes) ==
  IF ApproxSize(store) > maxBytes /\ Len(store.order) > 1
  THEN LET drop == store.order[Len(store.order)]
       IN  EvictBytes([store EXCEPT !.order = SubSeq(@, 1, Len(@) - 1),
                                    !.byId = ObjDel(@, drop)], maxBytes)
  ELSE store

\* the id saveConversation stores the conversation under
CanonicalId(conversation) ==
  IF StableIdFromUrl(conversation.url) # Undefined
  THEN StableIdFromUrl(conversation.url)
  ELSE conversation.id

\* tags, pinned or notes of the record to save: what the payload gives, the
\* earlier value when it gives none
Kept(given, prev) == IF given = Undefined /\ prev # Undefined THEN prev ELSE given

\* toSave: { ...prev, ...conversation, id: canonicalId } with tags, pinned
\* and notes kept, tags an array, pinned a boolean, and the two times
ToSave(prev, conversation, canonicalId, t) ==
  [id |-> canonicalId,
   url |-> conversation.url,
   title |-> conversation.title,
   text |-> conversation.text,
   tags |-> IF Kept(conversation.tags, prev.tags) = Undefined THEN Some(<<>>)
            ELSE Kept(conversation.tags, prev.tags),
   pinned |-> Some(Kept(conversation.pinned, prev.pinned) = Some(TRUE)),
   notes |-> Kept(conversation.notes, prev.notes),
   createdAt |-> IF prev.createdAt # 0 THEN prev.createdAt
                 ELSE IF conversation.createdAt # 0 THEN conversation.createdAt
                 ELSE t,
   updatedAt |-> t]

\* the record the URL was mapped to moves under the stable id
MigrateUrl(store, stable, canonicalId, prevForUrl) ==
  IF prevForUrl # Undefined /\ prevForUrl # canonicalId /\ stable # Undefined
  THEN Migrate(store, prevForUrl, canonicalId)
  ELSE store

\* the record under the incoming id moves under the canonical id
MigrateIncoming(store, incomingId, canonicalId) ==
  IF incomingId # canonicalId /\ ObjHas(store.byId, incomingId)
  THEN Migrate(store, incomingId, canonicalId)
  ELSE store

\* prev = store.byId[canonicalId] || {}
PrevOf(store, canonicalId) ==
  IF ObjHas(store.byId, canonicalId) THEN store.byId[canonicalId] ELSE NoConversation

\* the record goes into byId, the URL into urlToId, the id to the front
PutConversation(store, normalizedUrl, canonicalId, toSave) ==
  [store EXCEPT !.byId = ObjSet(@, canonicalId, toSave),
                !.urlToId = IF normalizedUrl # <<>>
                            THEN ObjSet(@, normalizedUrl, canonicalId) ELSE @,
                !.order = <<canonicalId>> \o Without(@, canonicalId)]

\* the merge of the payload into the store after the migrations
MergeInto(store, conversation, canonicalId, t) ==
  PutConversation(store, NormalizeUrl(conversation.url), canonicalId,
                  ToSave(PrevOf(store, canonicalId), conversation, canonicalId, t))

\* saveConversation(conversation, { maxItems, maxBytes }) on the store it read
SaveConversation(store, conversation, maxItems, maxBytes, t) ==
  EvictBytes(
    EvictItems(
      MergeInto(
        MigrateIncoming(
          MigrateUrl(store, StableIdFromUrl(conversation.url), CanonicalId(conversation),
                     ObjGet(store.urlToId, NormalizeUrl(conversation.url))),
          conversation.id, CanonicalId(conversation)),
        conversation, CanonicalId(conversation), t),
      maxItems),
    maxBytes)

\* patch.tags.map(String).map(trim).filter(Boolean)
CleanTags(tags) == SelectSeq([i \in 1..Len(tags) |-> StrTrim(tags[i])],
                             LAMBDA s : s # <<>>)

\* updateConversationMeta leaving the conversation at its place in order
UpdateConversationMeta_KeepsPlace(store, id, patch, t) ==
  IF ~ObjHas(store.byId, id) THEN store
  ELSE
    LET c == store.byId[id]
        next == [c EXCEPT
                   !.tags = IF patch.tags # Undefined THEN Some(CleanTags(patch.tags[1])) ELSE @,
                   !.pinned = IF patch.pinned # Undefined THEN Some(patch.pinned = Some(TRUE)) ELSE @,
                   !.notes = IF patch.notes # Undefined THEN patch.notes ELSE @,
                   !.updatedAt = t]
    IN  [store EXCEPT !.byId = ObjSet(@, id, next)]

\* updateConversationMeta(id, patch) on the store it read: the store to
\* write, or the store as it is when there is no such conversation
UpdateConversationMeta(store, id, patch, t) ==
  IF ~ObjHas(store.byId, id) THEN store
  ELSE
    LET c == store.byId[id]
        next == [c EXCEPT
                   !.tags = IF patch.tags # Undefined THEN Some(CleanTags(patch.tags[1])) ELSE @,
                   !.pinned = IF patch.pinned # Undefined THEN Some(patch.pinned = Some(TRUE)) ELSE @,
                   !.notes = IF patch.notes # Undefined THEN patch.notes ELSE @,
                   !.updatedAt = t]
    IN  [store EXCEPT !.byId = ObjSet(@, id, next),
                      !.order = <<id>> \o Without(@, id)]

\* deleteConversation(id) on the store it read
DeleteConversation(store, id) ==
  [byId |-> ObjDel(store.byId, id),
   order |-> Without(store.order, id),
   urlToId |-> [u \in {x \in DOMAIN store.urlToId : store.urlToId[x] # id}
                  |-> store.urlToId[u]]]

\* the requests the service worker is serving: each holds the store it read
\* from chrome.storage.local until it resumes and writes it back
Callers == {1, 2}
NoCall == [pc |-> "idle", store |-> NoStore, conversation |-> NoConversation,
           id |-> <<>>, maxItems |-> 0]
NoCop == [name |-> "none", id |-> <<>>, conversation |-> NoConversation,
          maxItems |-> 0, before |-> NoStore, stale |-> FALSE,
          log |-> <<>>, others |-> FALSE, served |-> 0,
          query |-> <<>>, limit |-> 0, sort |-> "relevance", pinnedOnly |-> FALSE,
          result |-> <<>>]

\* the pages conversations are saved from, with the id the caller gives:
\* a new chat, the chat X under a temporary id, and the chats X and Y
TmpId == <<"t", "m", "p", "_", "1">>
ChatX == <<"c", "_", "X">>
ChatY == <<"c", "_", "Y">>
Pages ==
  { [id |-> TmpId, url |-> <<"/">>],
    [id |-> TmpId, url |-> <<"/", "c", "/", "X">>],
    [id |-> ChatX, url |-> <<"/", "c", "/", "X", "?", "m">>],
    [id |-> ChatY, url |-> <<"/", "c", "/", "Y">>] }
ConvIds == {TmpId, ChatX, ChatY}

\* what a caller supplies of tags, pinned and notes
Metas ==
  { [tags |-> Undefined, pinned |-> Undefined, notes |-> Undefined],
    [tags |-> Some(<<<<"w">>>>), pinned |-> Some(TRUE), notes |-> Some(<<"n">>)] }
Patches ==
  { [tags |-> Some(<<<<" ", "v">>, <<" ">>>>), pinned |-> Undefined, notes |-> Undefined],
    [tags |-> Undefined, pinned |-> Some(TRUE), notes |-> Undefined] }

Payload(page, meta) ==
  [id |-> page.id, url |-> page.url, title |-> <<"T">>, text |-> <<"x">>,
   tags |-> meta.tags, pinned |-> meta.pinned, notes |-> meta.notes,
   createdAt |-> 0, updatedAt |-> 0]

InService == {h \in Callers : calls[h].pc # "idle"}
MayRequest(h) ==
  /\ calls[h].pc = "idle"
  /\ cop.served + Cardinality(InService) < MaxRequests

\* awt:save_conversation arrives: the router takes maxItems from the settings
\* and saveConversation reads the store
SaveRequest(h, conversation, maxSavedConversations) ==
  /\ MayRequest(h)
  /\ calls' = [calls EXCEPT ![h] =
       [pc |-> "save", store |-> conv, conversation |-> conversation,
        id |-> CanonicalId(conversation),
        maxItems |-> IF maxSavedConversations = 0 THEN MAX_ITEMS
                     ELSE maxSavedConversations]]
  /\ UNCHANGED <<now, syncVars, jobVars, mgVars, conv, cop, runner>>

\* saveConversation resumes with the store it read and writes it back
SaveDone(h) ==
  /\ calls[h].pc = "save"
  /\ conv' = SaveConversation(calls[h].store, calls[h].conversation,
                              calls[h].maxItems, MAX_BYTES, now)
  /\ cop' = [NoCop EXCEPT !.name = "save", !.id = calls[h].id,
                          !.conversation = calls[h].conversation,
                          !.maxItems = calls[h].maxItems,
                          !.before = conv, !.stale = (calls[h].store # conv),
                          !.log = Append(cop.log, [id |-> calls[h].id,
                                                   incoming |-> calls[h].conversation.id,
                                                   maxItems |-> calls[h].maxItems,
                                                   stale |-> (calls[h].store # conv)]),
                          !.others = cop.others, !.served = cop.served + 1]
  /\ calls' = [calls EXCEPT ![h] = NoCall]
  /\ UNCHANGED <<now, syncVars, jobVars, mgVars, runner>>

\* awt:update_conversation_meta arrives: updateConversationMeta reads the store
UpdateRequest(h, id, patch) ==
  /\ MayRequest(h)
  /\ calls' = [calls EXCEPT ![h] =
       [NoCall EXCEPT !.pc = "update", !.store = conv, !.id = id,
                      !.conversation = [NoConversation EXCEPT
                         !.tags = patch.tags, !.pinned = patch.pinned,
                         !.notes = patch.notes]]]
  /\ UNCHANGED <<now, syncVars, jobVars, mgVars, conv, cop, runner>>

\* updateConversationMeta resumes: null without a write when the store it
\* read has no such conversation, else it writes the store back
UpdateDone(h) ==
  /\ calls[h].pc = "update"
  /\ conv' = IF ObjHas(calls[h].store.byId, calls[h].id)
             THEN UpdateConversationMeta(calls[h].store, calls[h].id,
                                         calls[h].conversation, now)
             ELSE conv
  /\ cop' = [NoCop EXCEPT !.name = "update", !.id = calls[h].id,
                          !.conversation = calls[h].conversation,
                          !.before = conv, !.stale = (calls[h].store # conv),
                          !.log = cop.log, !.others = TRUE,
                          !.served = cop.served + 1]
  /\ calls' = [calls EXCEPT ![h] = NoCall]
  /\ UNCHANGED <<now, syncVars, jobVars, mgVars, runner>>

\* awt:delete_conversation arrives: deleteConversation reads the store
DeleteRequest(h, id) ==
  /\ MayRequest(h)
  /\ calls' = [calls EXCEPT ![h] =
       [NoCall EXCEPT !.pc = "delete", !.store = conv, !.id = id]]
  /\ UNCHANGED <<now, syncVars, jobVars, mgVars, conv, cop, runner>>

\* deleteConversation resumes and writes the store back
DeleteDone(h) ==
  /\ calls[h].pc = "delete"
  /\ conv' = DeleteConversation(calls[h].store, calls[h].id)
  /\ cop' = [NoCop EXCEPT !.name = "delete", !.id = calls[h].id,
                          !.before = conv, !.stale = (calls[h].store # conv),
                          !.log = cop.log, !.others = TRUE,
                          !.served = cop.served + 1]
  /\ calls' = [calls EXCEPT ![h] = NoCall]
  /\ UNCHANGED <<now, syncVars, jobVars, mgVars, runner>>

\* a millisecond passes between two steps of the service worker
ConvTick ==
  /\ now < StartTime + MaxConvTicks
  /\ now' = now + 1
  /\ UNCHANGED <<syncVars, jobVars, mgVars, appVars>>

\* the stop words of listConversations
STOP ==
  { <<"t","h","e">>, <<"a">>, <<"a","n">>, <<"a","n","d">>, <<"o","r">>,
    <<"t","o">>, <<"o","f">>, <<"i","n">>, <<"o","n">>, <<"f","o","r">>,
    <<"w","i","t","h">>, <<"i","s">>, <<"a","r","e">>, <<"w","a","s">>,
    <<"w","e","r","e">>, <<"b","e">>, <<"a","s">>, <<"a","t">>, <<"b","y">>,
    <<"f","r","o","m">> }

\* q.split(/[^a-z0-9_]+/i).filter(Boolean): the maximal runs of word characters
RECURSIVE SplitWords(_, _, _)
SplitWords(s, word, words) ==
  LET closed == IF word = <<>> THEN words ELSE Append(words, word)
  IN  IF s = <<>> THEN closed
      ELSE IF WordChar(Head(s)) THEN SplitWords(Tail(s), Append(word, Head(s)), words)
      ELSE SplitWords(Tail(s), <<>>, closed)

\* the tokens of the lowercased query: its words that are no stop words
Tokens(q) == SelectSeq(SplitWords(q, <<>>, <<>>), LAMBDA w : w \notin STOP)

\* new RegExp(`\\b${t}`, "i").test(s) for a token t and a lowercased s
WordStarts(s, t) ==
  \E i \in 1..(Len(s) - Len(t) + 1) :
    /\ SubSeq(s, i, i + Len(t) - 1) = t
    /\ i = 1 \/ ~WordChar(s[i - 1])

\* the recency boost in percent: 20 for a conversation updated now, falling
\* to 0 at two weeks (exact where the age is a whole twentieth of two weeks)
Boost(updatedAt, t) ==
  Max(0, Min(BOOST_MAX, (2 * WEEK_MS - (t - updatedAt)) \div ((2 * WEEK_MS) \div BOOST_MAX)))

\* scoreConversation for a non-empty query, in hundredths
ScoreConversation(c, q, tokens, t) ==
  LET title == ToLowerCase(c.title)
      url == ToLowerCase(c.url)
      text == ToLowerCase(c.text)
      tags == [i \in 1..Len(c.tags[1]) |-> ToLowerCase(c.tags[1][i])]
      Of(hit, points) == IF hit THEN points ELSE 0
      phrase == Of(Includes(title, q), PHRASE_TITLE) + Of(Includes(text, q), PHRASE_TEXT)
      TokenScore(tk) ==
          Of(Includes(title, tk), TOKEN_TITLE)
        + Of(\E i \in 1..Len(tags) : Includes(tags[i], tk), TOKEN_TAG)
        + Of(Includes(url, tk), TOKEN_URL)
        + Of(Includes(text, tk), TOKEN_TEXT)
        + Of(Len(tk) >= PREFIX_MIN /\ WordStarts(title, tk), PREFIX_TITLE)
        + Of(Len(tk) >= PREFIX_MIN /\ WordStarts(text, tk), PREFIX_TEXT)
      sum[i \in 0..Len(tokens)] ==
        IF i = 0 THEN phrase ELSE sum[i - 1] + TokenScore(tokens[i])
  IN  sum[Len(tokens)] * (100 + Boost(c.updatedAt, t))
        + Of(c.pinned = Some(TRUE), PINNED_BONUS * 100)

\* the filters of a call: pinnedOnly, tag, since and until (0 when not given)
NoFilters == [pinnedOnly |-> FALSE, tag |-> <<>>, since |-> 0, until |-> 0]
Passes(c, filters) ==
  LET ctags == [i \in 1..Len(c.tags[1]) |-> ToLowerCase(c.tags[1][i])]
      wantTag == StrTrim(ToLowerCase(filters.tag))
  IN  /\ filters.pinnedOnly => c.pinned = Some(TRUE)
      /\ ~(filters.since # 0 /\ c.updatedAt # 0 /\ c.updatedAt < filters.since)
      /\ ~(filters.until # 0 /\ c.updatedAt # 0 /\ c.updatedAt > filters.until)
      /\ wantTag # <<>> => \E i \in 1..Len(ctags) : ctags[i] = wantTag

\* title, url and the head of the text, lowercased
Hay(c) ==
  ToLowerCase(c.title \o <<"\n">> \o c.url \o <<"\n">> \o StrHead(c.text, TEXT_HEAD))

\* the loop over store.order: the items collected, with their scores
RECURSIVE Collect(_, _, _, _, _, _, _)
Collect(store, order, items, qRaw, limit, filters, t) ==
  IF order = <<>> THEN items
  ELSE
    LET id == Head(order)
        rest == Tail(order)
        q == ToLowerCase(qRaw)
        tokens == Tokens(q)
    IN  IF ~ObjHas(store.byId, id)
        THEN Collect(store, rest, items, qRaw, limit, filters, t)
        ELSE
          LET c == store.byId[id]
              hay == Hay(c)
          IN  IF ~Passes(c, filters)
              THEN Collect(store, rest, items, qRaw, limit, filters, t)
              ELSE IF qRaw = <<>>
              THEN IF Len(items) + 1 >= limit
                   THEN Append(items, [c |-> c, score |-> 0])
                   ELSE Collect(store, rest, Append(items, [c |-> c, score |-> 0]),
                                qRaw, limit, filters, t)
              ELSE IF /\ ~Includes(hay, q)
                      /\ tokens # <<>>
                      /\ ~\E i \in 1..Len(tokens) : Includes(hay, tokens[i])
              THEN Collect(store, rest, items, qRaw, limit, filters, t)
              ELSE Collect(store, rest,
                           Append(items, [c |-> c, score |-> ScoreConversation(c, q, tokens, t)]),
                           qRaw, limit, filters, t)

\* the two comparators of items.sort: a before b when negative
ByRecent(a, b) ==
  IF (b.c.pinned = Some(TRUE)) # (a.c.pinned = Some(TRUE))
  THEN (IF b.c.pinned = Some(TRUE) THEN 1 ELSE 0) - (IF a.c.pinned = Some(TRUE) THEN 1 ELSE 0)
  ELSE b.c.updatedAt - a.c.updatedAt
ByScore(a, b) == IF b.score # a.score THEN b.score - a.score ELSE ByRecent(a, b)

\* Array.prototype.sort, which is stable: the items one by one, each put
\* before the first one it has to precede
RECURSIVE SortItems(_, _, _)
SortItems(items, sorted, byScore) ==
  IF items = <<>> THEN sorted
  ELSE
    LET x == Head(items)
        Cmp(a, b) == IF byScore THEN ByScore(a, b) ELSE ByRecent(a, b)
        after == {i \in 1..Len(sorted) : Cmp(x, sorted[i]) < 0}
        at == IF after = {} THEN Len(sorted) + 1
              ELSE CHOOSE i \in after : \A j \in after : i <= j
    IN  SortItems(Tail(items),
                  SubSeq(sorted, 1, at - 1) \o <<x>> \o SubSeq(sorted, at, Len(sorted)),
                  byScore)

\* listConversations({ query, limit, filters, sort }) on the store it read
ListConversations(store, query, limit, filters, sort, t) ==
  LET qRaw == StrTrim(query)
      items == Collect(store, store.order, <<>>, qRaw, limit, filters, t)
      sorted == SortItems(items, <<>>, ~(qRaw = <<>> \/ sort = "recent"))
  IN  [i \in 1..Min(Len(sorted), limit) |-> sorted[i].c]

\* awt:list_conversations: the router fills in the limit and the sort
List(query, limit, pinnedOnly, sort) ==
  /\ cop.served < MaxSearches
  /\ cop' = [NoCop EXCEPT
       !.name = "list", !.query = query, !.sort = sort, !.pinnedOnly = pinnedOnly,
       !.served = cop.served + 1,
       !.limit = IF limit = 0 THEN LIST_LIMIT ELSE limit,
       !.result = ListConversations(conv, query,
                                    IF limit = 0 THEN LIST_LIMIT ELSE limit,
                                    [NoFilters EXCEPT !.pinnedOnly = pinnedOnly],
                                    sort, now)]
  /\ UNCHANGED <<now, syncVars, jobVars, mgVars, conv, calls, runner>>

-----------------------------------------------------------------------------
(* The script runner of one page (content/runner.js)                       *)

MaxUrls == 2     \* the page moves between the URLs 1..MaxUrls
MaxRoutes == 3   \* history changes in one run
MaxScripts == 2  \* scripts enabled for a URL

\* the page after attachRunner() on a loaded document: runDebounced("startup")
\* has set the timer
Attached ==
  [href |-> 1, lastUrl |-> 1, runTimer |-> "startup", running |-> FALSE,
   pc |-> "idle", trigger |-> "none", url |-> 0, left |-> 0,
   routes |-> 0, fresh |-> TRUE]

\* runDebounced(trigger): clearTimeout(runTimer), then a new timer
RunDebounced(r, trigger) == [r EXCEPT !.runTimer = trigger]

\* history.pushState / replaceState / popstate to `url`: the route hook
\* dispatches the event and the listener of attachRunner runs
RouteChange(url) ==
  /\ runner.routes < MaxRoutes
  /\ runner' =
       LET r == [runner EXCEPT !.href = url, !.routes = @ + 1]
       IN  IF url = r.lastUrl THEN r
           ELSE RunDebounced([r EXCEPT !.lastUrl = url, !.fresh = FALSE], "route")
  /\ UNCHANGED <<now, syncVars, jobVars, mgVars, conv, calls, cop>>

\* awt:run_now, or runNow()
RunNow ==
  /\ runner.runTimer # "manual"
  /\ runner' = RunDebounced(runner, "manual")
  /\ UNCHANGED <<now, syncVars, jobVars, mgVars, conv, calls, cop>>

\* the timer fires: runScripts({ trigger }) returns at once while a run is in
\* progress, else it starts one and asks for the scripts of location.href
TimerFire ==
  /\ runner.runTimer # "none"
  /\ runner' =
       IF runner.running THEN [runner EXCEPT !.runTimer = "none"]
       ELSE [runner EXCEPT !.runTimer = "none", !.running = TRUE,
                           !.pc = "enabled", !.trigger = runner.runTimer,
                           !.url = runner.href, !.fresh = TRUE]
  /\ UNCHANGED <<now, syncVars, jobVars, mgVars, conv, calls, cop>>

\* getEnabledScripts() answers with `enabled` scripts: none ends the run
EnabledArrive(enabled) ==
  /\ runner.pc = "enabled"
  /\ runner' =
       IF enabled = 0
       THEN [runner EXCEPT !.pc = "idle", !.running = FALSE]
       ELSE [runner EXCEPT !.pc = "settings", !.left = enabled]
  /\ UNCHANGED <<now, syncVars, jobVars, mgVars, conv, calls, cop>>

\* getSettingsSnapshot() answers
SettingsArrive ==
  /\ runner.pc = "settings"
  /\ runner' = [runner EXCEPT !.pc = "scripts"]
  /\ UNCHANGED <<now, syncVars, jobVars, mgVars, conv, calls, cop>>

\* one script of the loop is loaded and has run; after the last one the
\* finally block clears `running`
ScriptDone ==
  /\ runner.pc = "scripts"
  /\ runner' =
       IF runner.left = 1
       THEN [runner EXCEPT !.left = 0, !.pc = "idle", !.running = FALSE]
       ELSE [runner EXCEPT !.left = @ - 1]
  /\ UNCHANGED <<now, syncVars, jobVars, mgVars, conv, calls, cop>>

\* no conversation saved, no request in service, the runner just attached
AppAtRest ==
  /\ conv = NoStore
  /\ calls = [h \in Callers |-> NoCall]
  /\ cop = NoCop
  /\ runner = Attached

-----------------------------------------------------------------------------
\* no job, the connector configured and permitted, the service worker at rest
JobsAtRest ==
  /\ jobs = NoJobs
  /\ connectors = TRUE
  /\ granted = TRUE
  /\ proc = [p \in Procs |-> Idle]
  /\ ledger = NoLedger
  /\ nextJobId = 1

\* no tab has opened the sync channel
SyncAtRest ==
  /\ sync = [t \in Tabs |-> MemorySync]
  /\ chan = [p \in Pairs |-> <<>>]
  /\ saves = {}
  /\ lost = NoLoss
  /\ hist = [t \in Tabs |-> [begun |-> {}, done |-> {}, claimed |-> FALSE, added |-> FALSE,
                      yielded |-> FALSE]]
  /\ lastSync = [t \in Tabs |-> NoSync]
  /\ missed = [t \in Tabs |-> FALSE]
  /\ nextNodeId = 1

InitJobs ==
  /\ now = StartTime
  /\ SyncAtRest
  /\ JobsAtRest
  /\ AppAtRest
  /\ GraphAtRest

NextJobs ==
  \/ \E p \in Procs : ConnectorSend(p)
  \/ \E p \in Procs : Enqueue(p)
  \/ \E p \in Procs : AlarmFire(p)
  \/ \E p \in Procs : PumpStart(p)
  \/ \E p \in Procs : Scan(p)
  \/ \E p \in Procs : Perm(p)
  \/ \E p \in Procs : Write(p)
  \/ \E p \in Procs : Post(p)
  \/ \E p \in Procs : \E outcome \in {"ok", "http", "throw"} : Result(p, outcome)
  \/ Terminate
  \/ Minute
  \/ SetConnectors
  \/ PermissionChange

SpecJobs == InitJobs /\ [][NextJobs]_vars

-----------------------------------------------------------------------------
(* The job queue with one job more, the connector staying enabled and      *)
(* permitted and every POST answered with 200: connector_send handlers and *)
(* alarm pumps interleave at their storage awaits                          *)

NextRace ==
  \/ \E p \in Procs : ConnectorSendOf(p, MaxJobs + 1)
  \/ \E p \in Procs : Enqueue(p)
  \/ \E p \in Procs : AlarmFire(p)
  \/ \E p \in Procs : PumpStart(p)
  \/ \E p \in Procs : Scan(p)
  \/ \E p \in Procs : Perm(p)
  \/ \E p \in Procs : Write(p)
  \/ \E p \in Procs : Post(p)
  \/ \E p \in Procs : Result(p, "ok")

SpecRace == InitJobs /\ [][NextRace]_vars

-----------------------------------------------------------------------------
(* Leader election: the tabs start in any interleaving, one of them may    *)
(* die or shut down                                                        *)

InitElect ==
  /\ now = StartTime
  /\ SyncAtRest
  /\ JobsAtRest
  /\ AppAtRest
  /\ GraphAtRest

NextElect ==
  \/ \E t \in Tabs : InitStart(t)
  \/ \E t \in Tabs : InitElectionDone(t)
  \/ \E t \in Tabs : LeaderCheck(t)
  \/ \E t \in Tabs : \E cause \in {"timeout", "release"} : ElectionDone(t, cause)
  \/ \E t \in Tabs : Crash(t)
  \/ \E t \in Tabs : Shutdown(t)
  \/ Tick
  \/ \E s \in Tabs : \E r \in Tabs : Deliver(s, r)

SpecElect == InitElect /\ [][NextElect]_vars

-----------------------------------------------------------------------------
(* Graph sync: tab 1 is up and leader, the other tabs join while nodes are *)
(* being added                                                             *)

\* a millisecond passes
Millisecond ==
  /\ now < StartTime + MaxMs
  /\ now' = now + 1
  /\ UNCHANGED <<sync, chan, saves, lost, hist, lastSync, missed, nextNodeId>>
  /\ UNCHANGED <<jobVars, mgVars, appVars>>

\* a follower that found `leader` announced during its init()
Follower(t, leader) ==
  [MemorySync EXCEPT !.phase = "ready", !.leaderId = leader,
                     !.leaderLastSeen = StartTime,
                     !.graph = GraphStartSession(MemoryGraph(StartTime), t)]

\* tab 1 ran init() alone and claimed leadership; tab 3 joined and adopted it;
\* tab 2 is not open yet
InitGraph ==
  /\ now = StartTime
  /\ sync = [t \in Tabs |->
       IF t = 1
       THEN [Follower(1, 1) EXCEPT !.isLeader = TRUE, !.heartbeatInterval = TRUE]
       ELSE IF t = 2 THEN MemorySync
       ELSE Follower(t, 1)]
  /\ chan = [p \in Pairs |-> <<>>]
  /\ saves = {}
  /\ lost = NoLoss
  /\ hist = [t \in Tabs |-> [begun |-> {}, done |-> {}, claimed |-> t = 1, added |-> FALSE,
                      yielded |-> FALSE]]
  /\ lastSync = [t \in Tabs |-> NoSync]
  /\ missed = [t \in Tabs |-> FALSE]
  /\ nextNodeId = 1
  /\ JobsAtRest
  /\ AppAtRest
  /\ GraphAtRest

NextGraph ==
  \/ \E t \in Tabs : InitStart(t)
  \/ \E t \in Tabs : InitElectionDone(t)
  \/ \E t \in Tabs : \E content \in ContentPool(t) : AddNode(t, content)
  \/ \E t \in Tabs : HeartbeatFire(t)
  \/ \E t \in Tabs : PersistFire(t)
  \/ Millisecond
  \/ \E s \in Tabs : \E r \in Tabs : Deliver(s, r)

SpecGraph == InitGraph /\ [][NextGraph]_vars

-----------------------------------------------------------------------------
(* One graph under its own operations, from new MemoryGraph()              *)

InitMG ==
  /\ now = StartTime
  /\ SyncAtRest
  /\ JobsAtRest
  /\ AppAtRest
  /\ GraphAtRest

NextMG ==
  \/ \E content \in Contents : \E importance \in Importances : GAddNode(content, importance)
  \/ \E n \in 1..MaxGraphNodes : \E content \in Contents : GUpdateNode(n, content)
  \/ \E n \in 1..MaxGraphNodes : GRemoveNode(n)

SpecMG == InitMG /\ [][NextMG]_vars

-----------------------------------------------------------------------------
(* One graph with edges: nodes and edges added, updated and removed        *)

NextIndex ==
  \/ \E content \in Contents : GAddNode(content, 0)
  \/ \E n \in 1..MaxGraphNodes : \E content \in Contents : GUpdateNode(n, content)
  \/ \E n \in 1..MaxGraphNodes : GRemoveNode(n)
  \/ \E s \in 1..MaxGraphNodes : \E t \in 1..MaxGraphNodes :
       \E bidirectional \in BOOLEAN : GAddEdge(s, t, bidirectional)
  \/ \E e \in 1..MaxGraphEdges : GRemoveEdge(e)

SpecIndex == InitMG /\ [][NextIndex]_vars

-----------------------------------------------------------------------------
(* One graph with edges and sessions, its nodes being removed              *)

NextRemove ==
  \/ \E content \in Contents : GAddNode(content, 0)
  \/ \E s \in 1..MaxGraphNodes : \E t \in 1..MaxGraphNodes :
       \E bidirectional \in BOOLEAN : GAddEdge(s, t, bidirectional)
  \/ \E n \in 1..MaxGraphNodes : GRemoveNode(n)
  \/ GStartSession
  \/ GEndSession

SpecRemove == InitMG /\ [][NextRemove]_vars

-----------------------------------------------------------------------------
(* One graph growing, ageing and being pruned by Memory.maintenance        *)

NextPrune ==
  \/ \E content \in Contents : GAddNode(content, 0)
  \/ \E s \in 1..MaxGraphNodes : \E t \in 1..MaxGraphNodes :
       \E bidirectional \in BOOLEAN : GAddEdge(s, t, bidirectional)
  \/ \E n \in 1..MaxGraphNodes : GRemoveNode(n)
  \/ \E low \in SUBSET (1..MaxGraphNodes) : GMaintenance(low)
  \/ GWeek

SpecPrune == InitMG /\ [][NextPrune]_vars

-----------------------------------------------------------------------------
(* Sessions of one tab's graph: started and ended locally, persisted,      *)
(* loaded again at Memory.init, started and ended by other tabs            *)

NextSessions ==
  \/ \E content \in Contents : GAddNode(content, 0)
  \/ GStartSession
  \/ GEndSession
  \/ GSave
  \/ GReload
  \/ GRemoteSessionStarted
  \/ \E s \in 1..RemoteSessionId : GRemoteSessionEnded(s)

SpecSessions == InitMG /\ [][NextSessions]_vars

-----------------------------------------------------------------------------
(* Decay: a graph of two nodes, the first of them decayed to any level     *)
(* applyDecay can bring it to, under applyDecay and accesses               *)

DecayLevels == DECAY_FLOOR..DECAY_FULL

\* addNode with the type and content of a live node: the access path
GAccess(nodeId) ==
  /\ MapHas(mg.nodes, nodeId)
  /\ \E importance \in Importances : GAddNode(MapVal(mg.nodes, nodeId).content, importance)

InitDecay ==
  /\ now = StartTime
  /\ SyncAtRest
  /\ JobsAtRest
  /\ AppAtRest
  /\ disk = NoDisk
  /\ op = NoOp
  /\ ids = [NoIds EXCEPT !.node = 3]
  /\ \E d \in DecayLevels :
       LET g1 == AddNodeFull(NewGraph(StartTime), 1, NodeType, <<65, 97>>, 0, StartTime).graph
           g2 == AddNodeFull(g1, 2, NodeType, <<67>>, 0, StartTime).graph
       IN mg = [g2 EXCEPT !.nodes = MapSet(g2.nodes, 1, [MapVal(g2.nodes, 1) EXCEPT !.decay = d])]

NextDecay ==
  \/ GApplyDecay
  \/ \E n \in 1..MaxGraphNodes : GAccess(n)

SpecDecay == InitDecay /\ [][NextDecay]_vars

-----------------------------------------------------------------------------
(* getSubgraph on the graphs of a few nodes and edges                      *)

MaxSubNodes == 4
MaxSubEdges == 4
MaxDepth == 2

\* Array.from(set): the edge ids of a Set in the order they were added,
\* which is the order of the ids
RECURSIVE InOrder(_)
InOrder(edgeIds) ==
  IF edgeIds = {} THEN <<>>
  ELSE LET e == CHOOSE x \in edgeIds : \A y \in edgeIds : x <= y
       IN <<e>> \o InOrder(edgeIds \ {e})

\* getOutgoingEdges, getIncomingEdges: the edges that are in the table
OutgoingEdges(g, nodeId) ==
  SelectSeq(InOrder(MapSetOf(g.outgoing, nodeId)), LAMBDA e : MapHas(g.edges, e))
IncomingEdges(g, nodeId) ==
  SelectSeq(InOrder(MapSetOf(g.incoming, nodeId)), LAMBDA e : MapHas(g.edges, e))

\* getSubgraph, its closure traverse(nodeId, currentDepth) and the two loops
\* of it; st is [visited, nodes]
RECURSIVE Traverse(_, _, _, _, _)
RECURSIVE TraverseEdges(_, _, _, _, _, _)
TraverseEdges(g, edgeIds, outgoing, currentDepth, depth, st) ==
  IF edgeIds = <<>> THEN st
  ELSE LET edge == MapVal(g.edges, Head(edgeIds))
           next == IF outgoing THEN edge.targetId ELSE edge.sourceId
       IN TraverseEdges(g, Tail(edgeIds), outgoing, currentDepth, depth,
                        Traverse(g, next, currentDepth + 1, depth, st))

Traverse(g, nodeId, currentDepth, depth, st) ==
  IF nodeId \in st.visited \/ currentDepth > depth THEN st
  ELSE LET st1 == [visited |-> st.visited \cup {nodeId},
                   nodes |-> IF MapHas(g.nodes, nodeId)
                             THEN Append(st.nodes, nodeId) ELSE st.nodes]
           st2 == TraverseEdges(g, OutgoingEdges(g, nodeId), TRUE, currentDepth, depth, st1)
       IN TraverseEdges(g, IncomingEdges(g, nodeId), FALSE, currentDepth, depth, st2)

\* MemoryGraph.getSubgraph(startNodeId, depth): the ids of the nodes returned
GetSubgraph(g, startNodeId, depth) ==
  Traverse(g, startNodeId, 0, depth, [visited |-> {}, nodes |-> <<>>]).nodes

\* the graph with nodes 1..MaxSubNodes after addEdge for each pair of a list
RECURSIVE WithNodes(_, _)
WithNodes(g, n) ==
  IF n = 0 THEN g
  ELSE AddNodeFull(WithNodes(g, n - 1), n, NodeType, <<67 + n>>, 0, StartTime).graph

RECURSIVE WithEdges(_, _)
WithEdges(g, pairs) ==
  IF pairs = <<>> THEN g
  ELSE LET g1 == WithEdges(g, SubSeq(pairs, 1, Len(pairs) - 1))
           last == pairs[Len(pairs)]
       IN AddEdgeFull(g1, Len(pairs), last[1], last[2], EdgeTypeUsed, FALSE, StartTime).graph

SubNodes == 1..MaxSubNodes
EdgeLists ==
  {pairs \in UNION {[1..n -> {p \in SubNodes \X SubNodes : p[1] # p[2]}] : n \in 0..MaxSubEdges} :
     \A i \in DOMAIN pairs : \A j \in DOMAIN pairs : pairs[i] = pairs[j] => i = j}

\* graph.getSubgraph(startNodeId, depth) is called
GGetSubgraph(startNodeId, depth) ==
  /\ op' = [NoOp EXCEPT !.name = "getSubgraph", !.id = startNodeId, !.depth = depth,
                        !.nodes = GetSubgraph(mg, startNodeId, depth)]
  /\ UNCHANGED <<now, syncVars, jobVars, appVars, mg, disk, ids>>

InitSubgraph ==
  /\ now = StartTime
  /\ SyncAtRest
  /\ JobsAtRest
  /\ AppAtRest
  /\ disk = NoDisk
  /\ op = NoOp
  /\ \E pairs \in EdgeLists :
       /\ mg = WithEdges(WithNodes(NewGraph(StartTime), MaxSubNodes), pairs)
       /\ ids = [NoIds EXCEPT !.node = MaxSubNodes + 1, !.edge = Len(pairs) + 1]

NextSubgraph ==
  \E startNodeId \in SubNodes : \E depth \in 0..MaxDepth : GGetSubgraph(startNodeId, depth)

SpecSubgraph == InitSubgraph /\ [][NextSubgraph]_vars

-----------------------------------------------------------------------------
(* Saved conversations under the requests of the service worker            *)

InitConv ==
  /\ now = StartTime
  /\ SyncAtRest
  /\ JobsAtRest
  /\ AppAtRest
  /\ GraphAtRest

NextConv ==
  \/ \E h \in Callers :
       \/ \E page \in Pages : \E meta \in Metas : \E m \in 0..MaxSaved :
            SaveRequest(h, Payload(page, meta), m)
       \/ SaveDone(h)
       \/ \E id \in ConvIds : \E patch \in Patches : UpdateRequest(h, id, patch)
       \/ UpdateDone(h)
       \/ \E id \in ConvIds : DeleteRequest(h, id)
       \/ DeleteDone(h)
  \/ ConvTick

SpecConv == InitConv /\ [][NextConv]_vars

-----------------------------------------------------------------------------
(* Searches of a conversation store                                        *)

\* the term searched for, and a conversation that has it in its title, in a
\* tag, in its text or nowhere
Term == <<"d", "j", "a">>
Places == {"none", "title", "tag", "text"}
Listed(i, place, pinned, weeks, t) ==
  [id |-> <<"c", "_", Uppers[20 + i]>>,
   url |-> <<"/", "c", "/", Uppers[20 + i]>>,
   title |-> IF place = "title" THEN <<"D", "j", "a", " ", "T">> ELSE <<"T">>,
   text |-> IF place = "text" THEN <<"x", " ", "d", "j", "a">> ELSE <<"x">>,
   tags |-> Some(IF place = "tag" THEN <<<<"D", "j", "a">>>> ELSE <<>>),
   pinned |-> Some(pinned),
   notes |-> Undefined,
   createdAt |-> t - weeks * WEEK_MS,
   updatedAt |-> t - weeks * WEEK_MS]

\* the store after these conversations were saved, the last of them first
ListStore(places, pins, weeks, t) ==
  LET c(i) == Listed(i, places[i], pins[i], weeks[i], t)
      at(id) == CHOOSE i \in 1..MaxListed : c(i).id = id
  IN  [byId |-> [id \in {c(i).id : i \in 1..MaxListed} |-> c(at(id))],
       order |-> [i \in 1..MaxListed |-> c(i).id],
       urlToId |-> [u \in {c(i).url : i \in 1..MaxListed} |->
                      c(CHOOSE i \in 1..MaxListed : c(i).url = u).id]]

Queries == {<<>>, <<" ", "D", "j", "a">>, <<"a">>, <<"d", "j", "a", " ", "t">>}

InitList ==
  /\ now = StartTime + MaxListWeeks * WEEK_MS
  /\ SyncAtRest
  /\ JobsAtRest
  /\ GraphAtRest
  /\ calls = [h \in Callers |-> NoCall]
  /\ cop = NoCop
  /\ runner = Attached
  /\ \E places \in [1..MaxListed -> Places] :
       \E pins \in [1..MaxListed -> BOOLEAN] :
         \E weeks \in [1..MaxListed -> 0..MaxListWeeks] :
           /\ \A i \in 1..MaxListed : \A j \in i..MaxListed : weeks[i] <= weeks[j]
           /\ conv = ListStore(places, pins, weeks, now)

NextList ==
  \E query \in Queries : \E limit \in 0..(MaxListed - 1) :
    \E pinnedOnly \in BOOLEAN : \E sort \in {"relevance", "recent"} :
      List(query, limit, pinnedOnly, sort)

SpecList == InitList /\ [][NextList]_vars

-----------------------------------------------------------------------------
(* The script runner under route changes                                   *)

NextRunner ==
  \/ \E url \in 1..MaxUrls : RouteChange(url)
  \/ RunNow
  \/ TimerFire
  \/ \E enabled \in 0..MaxScripts : EnabledArrive(enabled)
  \/ SettingsArrive
  \/ ScriptDone

SpecRunner == InitConv /\ [][NextRunner]_vars


-----------------------------------------------------------------------------
(* Graph updates between tabs: tabs 1 and 2 are up, tab 1 leads. Tab 1     *)
(* adds nodes and edges, tab 2 removes nodes and announces node updates;   *)
(* the updates cross on the channel                                        *)

\* the tabs that are open
Open == {t \in Tabs : t <= 2}

InitRemote ==
  /\ now = StartTime
  /\ sync = [t \in Tabs |-> IF t \in Open THEN Member(t, 1) ELSE MemorySync]
  /\ chan = [p \in Pairs |-> <<>>]
  /\ saves = {}
  /\ lost = NoLoss
  /\ hist = [t \in Tabs |-> [begun |-> {}, done |-> {}, claimed |-> t = 1, added |-> FALSE,
                      yielded |-> FALSE]]
  /\ lastSync = [t \in Tabs |-> NoSync]
  /\ missed = [t \in Tabs |-> FALSE]
  /\ nextNodeId = 1
  /\ JobsAtRest
  /\ AppAtRest
  /\ GraphAtRest

NextRemote ==
  \/ \E content \in ContentPool(1) \cup ContentPool(2) : MAddNode(1, content)
  \/ \E sourceId \in 1..MaxNodes : \E targetId \in 1..MaxNodes :
       MAddEdge(1, sourceId, targetId)
  \/ \E nodeId \in 1..MaxNodes : MRemoveNode(2, nodeId)
  \/ \E nodeId \in 1..MaxNodes : BroadcastNodeUpdated(2, nodeId)
  \/ Millisecond
  \/ \E s \in Open : \E r \in Open : DeliverUpdate(s, r)

SpecRemote == InitRemote /\ [][NextRemote]_vars

-----------------------------------------------------------------------------
(* The job queue behind a backlog: the connector "old" of the oldest jobs  *)
(* was deleted before a pump got to them, and a pump has failed them; the  *)
(* newest job is queued for the connector that is configured. The alarm    *)
(* keeps firing and every invocation runs on.                              *)

MaxBacklog == 3

BacklogIds == 1..(MaxBacklog + 1)

\* a job the pump failed because its connector is gone
Orphan(id) ==
  [id |-> id, connectorId |-> "old", attempts |-> 0, status |-> "failed",
   error |-> "missing_connector", nextRunAt |-> 0, result |-> 0]

\* n orphans, then a job as enqueueJob stores it; the order is newest first
Backlog(n) ==
  [byId |-> [i \in 1..(n + 1) |->
               [k |-> i,
                v |-> IF i <= n THEN Orphan(i)
                      ELSE MapVal(EnqueueJob(NoJobs, i, "hook").byId, i)]],
   order |-> [i \in 1..(n + 1) |-> n + 2 - i]]

InitStarve ==
  /\ now = StartTime
  /\ \E n \in 0..MaxBacklog :
       /\ jobs = Backlog(n)
       /\ nextJobId = n + 2
  /\ connectors = TRUE
  /\ granted = TRUE
  /\ proc = [p \in Procs |-> Idle]
  /\ ledger = [posts |-> [i \in BacklogIds |-> 0], fails |-> [i \in BacklogIds |-> 0],
               oks |-> [i \in BacklogIds |-> 0], pending |-> [p \in Procs |-> NoFail],
               lastFail |-> [i \in BacklogIds |-> NoFail]]
  /\ SyncAtRest
  /\ AppAtRest
  /\ GraphAtRest

\* a step of an alarm's pump invocation
Pumping ==
  \/ \E p \in Procs : AlarmFire(p)
  \/ \E p \in Procs : PumpStart(p)
  \/ \E p \in Procs : Scan(p)
  \/ \E p \in Procs : Perm(p)
  \/ \E p \in Procs : Write(p)
  \/ \E p \in Procs : Post(p)
  \/ \E p \in Procs : \E outcome \in {"ok", "http", "throw"} : Result(p, outcome)

NextStarve ==
  \/ Pumping
  \/ Minute

SpecStarve == InitStarve /\ [][NextStarve]_vars /\ WF_vars(Pumping)

-----------------------------------------------------------------------------
(* One graph that grows and shrinks and is persisted by saveGraph          *)

NextStore ==
  \/ \E content \in Contents : GAddNode(content, 0)
  \/ \E s \in 1..MaxGraphNodes : \E t \in 1..MaxGraphNodes :
       \E bidirectional \in BOOLEAN : GAddEdge(s, t, bidirectional)
  \/ \E n \in 1..MaxGraphNodes : GRemoveNode(n)
  \/ \E e \in 1..MaxGraphEdges : GRemoveEdge(e)
  \/ GSave

SpecStore == InitMG /\ [][NextStore]_vars

-----------------------------------------------------------------------------
(* One graph whose nodes are joined by edges, one way or both ways         *)

NextEdges ==
  \/ \E content \in Contents : GAddNode(content, 0)
  \/ \E s \in 1..MaxGraphNodes : \E t \in 1..MaxGraphNodes :
       \E bidirectional \in BOOLEAN : GAddEdgeCall(s, t, bidirectional)
  \/ \E e \in 1..MaxGraphEdges : GRemoveEdge(e)

SpecEdges == InitMG /\ [][NextEdges]_vars

-----------------------------------------------------------------------------
(* Claims on the leader election                                            *)

Survivors == {t \in Tabs : sync[t].phase = "ready"}
Leaders == {t \in Survivors : sync[t].isLeader}

\* C1: after the leader died silently, once the surviving tabs have seen the
\* leader timeout and finished the election round it starts, exactly one of
\* them is leader
C1_OneLeaderAfterTimeout ==
  (/\ lost.how = "crash" /\ lost.leader
   /\ Quiescent
   /\ Survivors # {}
   /\ \A t \in Survivors : "timeout" \in hist[t].done)
  => Cardinality(Leaders) = 1

\* C2: after the leader shut down and its leader_release was delivered, once
\* the peers that had it as leader have finished their re-election, one of
\* the surviving tabs is leader
C2_LeaderAfterRelease ==
  (/\ lost.how = "release" /\ lost.leader
   /\ Quiescent
   /\ \E t \in Survivors : "release" \in hist[t].done)
  => Leaders # {}

\* C3: in every quiescent state (all messages delivered, no election wait
\* pending) at most one tab of the channel has isLeader = true
C3_AtMostOneLeader ==
  Quiescent => Cardinality(Leaders) <= 1

\* C3 witness: all tabs are up, at least two of them claimed leadership, and
\* everything has settled
C3_Witness ==
  /\ Quiescent
  /\ lost = NoLoss
  /\ Survivors = Tabs
  /\ Cardinality({t \in Tabs : hist[t].claimed}) >= 2
  /\ Cardinality(Leaders) = 1

-----------------------------------------------------------------------------
(* Claims on persistence and graph sync                                     *)

\* C4: the sync layer calls memoryStore.saveGraph only in a tab that is
\* leader at the moment of the write
C4_OnlyLeaderPersists == \A s \in saves : s.leader

AllDelivered == \A p \in Pairs : chan[p] = <<>>
NodeIds(g) == MapKeys(g.nodes)

\* C5: two tabs that started from the same graph, listened to every
\* node_added and each added nodes of their own hold the same node ids once
\* all messages are delivered
C5_SameNodeIds ==
  AllDelivered =>
    \A a \in Survivors : \A b \in Survivors :
      (/\ ~missed[a] /\ ~missed[b]
       /\ hist[a].added /\ hist[b].added)
      => NodeIds(sync[a].graph) = NodeIds(sync[b].graph)

\* what a serialized node says about a node: id, type and content
NodeFacts(n) == [id |-> n.id, type |-> n.type, content |-> n.content]
\* the graph g holds exactly what the serialized graph json holds
HoldsPayload(g, json) ==
  /\ Len(g.nodes) = Len(json.nodes)
  /\ \A i \in 1..Len(json.nodes) : NodeFacts(g.nodes[i].v) = NodeFacts(json.nodes[i])
  /\ g.edges = json.edges
  /\ g.sessions = json.sessions
  /\ g.lastModified = json.lastModified

\* C6: once the full_sync_response a joining tab asked for is delivered to it,
\* its graph equals the graph the leader sent
C6_JoinerGetsLeaderGraph ==
  \A t \in Tabs :
    lastSync[t].target = t => HoldsPayload(lastSync[t].after, lastSync[t].payload)

-----------------------------------------------------------------------------
(* Claims on the webhook job queue                                          *)

Stored == MapKeys(jobs.byId)
Job(id) == MapVal(jobs.byId, id)

\* a pump invocation is past its scan with job id: it is about to write the
\* job, to send it, or to record the outcome
InHand(p, id) ==
  /\ proc[p].id = id
  /\ proc[p].pc \in {"perm", "write", "post", "result"}

\* C8: every enqueued job gets done or failed under repeated pumps, also after
\* the service worker was terminated: a stored job is done, failed, queued for
\* a later pump, or running in an invocation that is still alive
C8_EveryJobCanFinish ==
  \A id \in Stored :
    Job(id).status = "running" => \E p \in Procs : InHand(p, id)

\* C9: no job is POSTed more than 5 times, and no pump invocation that found a
\* job failed marks it running or sends it
C9_FailedIsFinal ==
  /\ \A id \in JobIds : ledger.posts[id] <= MAX_ATTEMPTS
  /\ \A p \in Procs :
       proc[p].pc \in {"post", "result"}
       => MapVal(proc[p].snap.byId, proc[p].id).status # "failed"

\* C10: for a job whose every POST failed, the a-th failure (a = 1..4) leaves
\* it queued with attempts = a and nextRunAt = now + min(60000 * a, 600000),
\* the 5th leaves it failed with attempts = 5 and an error
C10_BackoffLadder ==
  \A id \in JobIds :
    (ledger.lastFail[id] # NoFail /\ ledger.oks[id] = 0) =>
      LET a == ledger.lastFail[id].a
          at == ledger.lastFail[id].at
          j == ledger.lastFail[id].job
      IN /\ a \in 1..4 => /\ j.status = "queued"
                          /\ j.attempts = a
                          /\ j.nextRunAt = at + Min(60000 * a, 600000)
         /\ a = 5 => /\ j.status = "failed"
                    /\ j.attempts = 5
                    /\ j.error # ""

\* the job of its snapshot that invocation p has in hand
SnapJob(p) == MapVal(proc[p].snap.byId, proc[p].id)

\* invocation p gets the write of its updateJob done in this step
Writes(p) == proc[p].pc = "write" /\ proc'[p].pc = proc[p].next

\* C11: a pump invocation that found a job freshly enqueued and got HTTP 200
\* for it, with no failed POST for the job, leaves it done with attempts = 1,
\* error = "" and result.status = 200
C11_FreshJobDoneInOnePump ==
  [][\A p \in Procs :
       (/\ Writes(p)
        /\ proc[p].patch.status = "done"
        /\ SnapJob(p).status = "queued" /\ SnapJob(p).attempts = 0
        /\ ledger.fails[proc[p].id] = 0)
       => /\ MapHas(jobs'.byId, proc[p].id)
          /\ LET j == MapVal(jobs'.byId, proc[p].id)
             IN /\ j.status = "done"
                /\ j.attempts = 1
                /\ j.error = ""
                /\ j.result = 200]_vars

-----------------------------------------------------------------------------
(* Claims about one MemoryGraph                                            *)

LiveNodes == MapKeys(mg.nodes)
Node(id) == MapVal(mg.nodes, id)

\* C13: whatever addNode, updateNode (content changes included) and
\* removeNode were called on a graph, no two live nodes have the same type
\* and content
C13_NoDuplicateContent ==
  \A a \in LiveNodes : \A b \in LiveNodes :
    (Node(a).type = Node(b).type /\ Node(a).content = Node(b).content) => a = b

LiveEdges == MapKeys(mg.edges)
Edge(id) == MapVal(mg.edges, id)
ContentIndexAgrees ==
  /\ \A n \in LiveNodes :
       /\ MapHas(mg.contentIndex, HashContent(Node(n).type, Node(n).content))
       /\ MapVal(mg.contentIndex, HashContent(Node(n).type, Node(n).content)) = n
  /\ \A h \in MapKeys(mg.contentIndex) : MapVal(mg.contentIndex, h) \in LiveNodes
  /\ Len(mg.contentIndex) = Len(mg.nodes)
TypeIndicesAgree ==
  /\ \A type \in MapKeys(mg.nodesByType) \cup {Node(n).type : n \in LiveNodes} :
       MapSetOf(mg.nodesByType, type) = {n \in LiveNodes : Node(n).type = type}
  /\ \A type \in MapKeys(mg.edgesByType) \cup {Edge(e).type : e \in LiveEdges} :
       MapSetOf(mg.edgesByType, type) = {e \in LiveEdges : Edge(e).type = type}
AdjacencyAgrees ==
  /\ MapKeys(mg.outgoing) = LiveNodes
  /\ MapKeys(mg.incoming) = LiveNodes
  /\ \A n \in LiveNodes :
       /\ MapVal(mg.outgoing, n) =
            {e \in LiveEdges : \/ Edge(e).sourceId = n
                               \/ Edge(e).bidirectional /\ Edge(e).targetId = n}
       /\ MapVal(mg.incoming, n) =
            {e \in LiveEdges : \/ Edge(e).targetId = n
                               \/ Edge(e).bidirectional /\ Edge(e).sourceId = n}

\* C14: under addNode, updateNode, removeNode, addEdge and edge removal the
\* secondary indices agree with the tables: contentIndex has exactly one
\* entry per live node, from the hash of its current type and content to
\* its id, and none to a removed node; nodesByType and edgesByType hold
\* exactly the live ids of each type; outgoing and incoming hold exactly
\* the live edges incident to each live node
C14_IndicesAgree == ContentIndexAgrees /\ TypeIndicesAgree /\ AdjacencyAgrees

\* C15: under addNode, addEdge, removeNode and prune, the source and the
\* target of every edge are live nodes
C15_EdgesJoinLiveNodes ==
  \A e \in LiveEdges : Edge(e).sourceId \in LiveNodes /\ Edge(e).targetId \in LiveNodes

\* prune removed a node together with an edge of it, another node stays
C15_Witness ==
  /\ op.name = "maintenance"
  /\ op.pruned >= 1
  /\ op.edges >= 1
  /\ LiveNodes # {}

\* C16: removeNode(n) on a live node n leaves no edge with n as source or
\* target (bidirectional edges and self-loops included) and no session whose
\* nodeIds contains n; removeNode(n) on a node that is not live, as a second
\* removeNode(n) is, returns false and changes nothing
C16_RemoveNodeIsClean ==
  [][op'.name = "removeNode" /\ (op' # op \/ mg' # mg) =>
       IF op'.id \in LiveNodes
       THEN /\ op'.result
            /\ ~MapHas(mg'.nodes, op'.id)
            /\ \A i \in 1..Len(mg'.edges) :
                 mg'.edges[i].v.sourceId # op'.id /\ mg'.edges[i].v.targetId # op'.id
            /\ \A i \in 1..Len(mg'.sessions) : op'.id \notin mg'.sessions[i].v.nodeIds
       ELSE ~op'.result /\ mg' = mg]_vars

\* a live node with an edge, recorded in a session, was removed
C16_Witness ==
  /\ op.name = "removeNode"
  /\ op.result
  /\ op.edges >= 1
  /\ op.sessions >= 1

ActiveSessions == {s \in MapKeys(mg.sessions) : MapVal(mg.sessions, s).isActive}

\* C17: at most one session of a graph is active, whatever startSession,
\* endSession, the load of the persisted graph at Memory.init and the remote
\* session_started and session_ended messages did
C17_OneActiveSession == Cardinality(ActiveSessions) <= 1

\* the live nodes with the type and content addNode was just called with
Holders == {n \in LiveNodes : Node(n).type = NodeType /\ Node(n).content = op'.content}

\* C18: addNode(t, c, m) on a graph that contains a node with type t and
\* content c returns that node and creates none; the node's accessCount goes
\* up by exactly one and its importance becomes the greater of its previous
\* importance and m.importance
C18_AddNodeOfExistingContent ==
  [][(op'.name = "addNode" /\ (op' # op \/ mg' # mg) /\ Holders # {}) =>
       /\ ~op'.created
       /\ op'.id \in Holders
       /\ Len(mg'.nodes) = Len(mg.nodes)
       /\ MapVal(mg'.nodes, op'.id).accessCount = Node(op'.id).accessCount + 1
       /\ MapVal(mg'.nodes, op'.id).importance = Max(Node(op'.id).importance, op'.importance)]_vars

\* MemoryGraph.fromJSON(mg.toJSON()), called now
RoundTrip == FromJSONFull(ToJSONFull(mg), now)

\* C19: the graph that fromJSON makes of G.toJSON() has the nodes of G with
\* their id, type, content, metadata (createdAt, updatedAt, accessCount,
\* lastAccessedAt), importance, confidence and decay, and the edges, the
\* sessions and the adjacency of G
C19_JSONRoundTrip ==
  /\ RoundTrip.nodes = mg.nodes
  /\ RoundTrip.edges = mg.edges
  /\ RoundTrip.sessions = mg.sessions
  /\ \A n \in LiveNodes :
       /\ MapSetOf(RoundTrip.outgoing, n) = MapSetOf(mg.outgoing, n)
       /\ MapSetOf(RoundTrip.incoming, n) = MapSetOf(mg.incoming, n)

DecayInRange(g) ==
  \A i \in 1..Len(g.nodes) :
    g.nodes[i].v.decay >= DECAY_FLOOR /\ g.nodes[i].v.decay <= DECAY_FULL

\* C20: the decay of every node stays between 0.1 and 1.0; applyDecay raises
\* no node's decay and brings none below 0.1; each access (the touch of
\* addNode on an existing node) raises the decay by exactly 0.1, capped at 1.0
C20_DecayBounded ==
  [][/\ DecayInRange(mg) /\ DecayInRange(mg')
     /\ op'.name = "applyDecay" =>
          \A n \in LiveNodes :
            /\ MapVal(mg'.nodes, n).decay <= Node(n).decay
            /\ MapVal(mg'.nodes, n).decay >= DECAY_FLOOR
     /\ (op'.name = "addNode" /\ ~op'.created /\ (op' # op \/ mg' # mg)) =>
          MapVal(mg'.nodes, op'.id).decay = Min(DECAY_FULL, Node(op'.id).decay + DECAY_BOOST)]_vars

\* a node decayed to the floor was accessed and then decayed again
C20_Witness ==
  /\ op.name = "applyDecay"
  /\ \E n \in LiveNodes :
       /\ Node(n).accessCount >= 1
       /\ Node(n).decay = DECAY_FLOOR + DECAY_BOOST - DECAY_STEP

\* the nodes one hop from a set of nodes, along an edge in either direction
Around(nodes) ==
  nodes \cup {Edge(e).targetId : e \in {x \in LiveEdges : Edge(x).sourceId \in nodes}}
        \cup {Edge(e).sourceId : e \in {x \in LiveEdges : Edge(x).targetId \in nodes}}
RECURSIVE Within(_, _)
Within(nodes, hops) == IF hops = 0 THEN nodes ELSE Within(Around(nodes), hops - 1)

\* C21: getSubgraph(start, d) returns exactly the nodes at most d hops from
\* start, along edges in either direction, each of them once
C21_SubgraphIsBall ==
  op.name = "getSubgraph" =>
    /\ {op.nodes[i] : i \in 1..Len(op.nodes)} = Within({op.id}, op.depth)
    /\ \A i \in 1..Len(op.nodes) : \A j \in 1..Len(op.nodes) :
         op.nodes[i] = op.nodes[j] => i = j


-----------------------------------------------------------------------------
(* Claims about the saved conversations                                    *)

SavedIds == DOMAIN conv.byId
Saved(id) == conv.byId[id]
NoRepeat(s) == \A i \in 1..Len(s) : \A j \in 1..Len(s) : s[i] = s[j] => i = j

\* C22: whatever saves (with eviction), meta updates and deletes were served,
\* order holds exactly the keys of byId, each once, and runs from the latest
\* updatedAt to the earliest
C22_OrderMatchesById ==
  /\ {conv.order[i] : i \in 1..Len(conv.order)} = SavedIds
  /\ NoRepeat(conv.order)
  /\ \A i \in 1..Len(conv.order) : \A j \in i..Len(conv.order) :
       Saved(conv.order[i]).updatedAt >= Saved(conv.order[j]).updatedAt

\* a meta update has moved the older of two conversations to the front
C22_Witness ==
  /\ cop.name = "update"
  /\ Len(conv.order) = 2
  /\ conv.order[1] = cop.id
  /\ cop.before.order[2] = cop.id
  /\ Saved(conv.order[1]).updatedAt > Saved(conv.order[2]).updatedAt

\* C23: whatever the store held, after a save of a conversation whose URL
\* contains /c/<hash> the record is stored under c_<hash>, the normalized
\* URL maps to c_<hash>, c_<hash> heads order, and neither a record nor an
\* order entry is left under the incoming id when that is another id
C23_SavedUnderStableId ==
  LET url == cop.conversation.url
      incoming == cop.conversation.id
  IN  (cop.name = "save" /\ Includes(Pathname(url), <<"/", "c", "/">>)) =>
        /\ SubSeq(cop.id, 1, 2) = <<"c", "_">>
        /\ Includes(Pathname(url), <<"/", "c", "/">> \o SubSeq(cop.id, 3, Len(cop.id)))
        /\ cop.id \in SavedIds
        /\ Saved(cop.id).id = cop.id
        /\ NormalizeUrl(url) \in DOMAIN conv.urlToId
        /\ conv.urlToId[NormalizeUrl(url)] = cop.id
        /\ conv.order # <<>>
        /\ conv.order[1] = cop.id
        /\ incoming # cop.id =>
             /\ incoming \notin SavedIds
             /\ \A i \in 1..Len(conv.order) : conv.order[i] # incoming

\* a save from the page of chat X under the temporary id found a record under
\* that id
C23_Witness ==
  /\ cop.name = "save"
  /\ cop.conversation.id = TmpId
  /\ cop.id = ChatX
  /\ TmpId \in DOMAIN cop.before.byId
  /\ ~cop.stale

\* the record a save continues: the one stored under its canonical id, or
\* else the one stored under its incoming id
Continues(store, id, incoming) ==
  IF id \in DOMAIN store.byId THEN {store.byId[id]}
  ELSE IF incoming \in DOMAIN store.byId THEN {store.byId[incoming]}
  ELSE {}

\* C24: a save keeps the stored tags, pinned and notes of the record it
\* continues (also a record it migrates from a temporary id) wherever its
\* payload does not supply them
C24_MetaKept ==
  cop.name = "save" =>
    \A earlier \in Continues(cop.before, cop.id, cop.conversation.id) :
      /\ cop.id \in SavedIds
      /\ cop.conversation.tags = Undefined => Saved(cop.id).tags = earlier.tags
      /\ cop.conversation.pinned = Undefined => Saved(cop.id).pinned = earlier.pinned
      /\ cop.conversation.notes = Undefined => Saved(cop.id).notes = earlier.notes

\* the saves served so far, nothing else served and nothing in service
OnlySaves(n) ==
  /\ Len(cop.log) = n
  /\ ~cop.others
  /\ InService = {}

\* C25: after N saves with pairwise distinct canonical ids under one maxItems
\* K the store holds exactly the min(N, K) ids saved last, order has them
\* from the last saved on
C25_KeepsMostRecent ==
  \A n \in 1..MaxRequests : \A k \in {MAX_ITEMS} \cup (1..MaxSaved) :
    ( /\ OnlySaves(n)
      /\ \A i \in 1..n : cop.log[i].maxItems = k
      /\ \A i \in 1..n : \A j \in 1..n : cop.log[i].id = cop.log[j].id => i = j ) =>
    /\ SavedIds = {cop.log[i].id : i \in (n - Min(n, k) + 1)..n}
    /\ conv.order = [i \in 1..Min(n, k) |-> cop.log[n + 1 - i].id]

\* C29: two saves for different ids served by the same service worker, also
\* when they interleave at their storage awaits, are both in the stored
\* document (none of the two evicts: maxItems is at least 2)
C29_BothSavesStored ==
  ( /\ OnlySaves(2)
    /\ cop.log[1].id # cop.log[2].id
    /\ cop.log[1].id # cop.log[2].incoming
    /\ cop.log[1].incoming # cop.log[2].incoming
    /\ cop.log[1].maxItems >= 2
    /\ cop.log[2].maxItems >= 2 ) =>
  {cop.log[1].id, cop.log[2].id} \subseteq SavedIds


-----------------------------------------------------------------------------
(* Claims about searches                                                   *)

ResultIds == [i \in 1..Len(cop.result) |-> cop.result[i].id]
Listing(i) == conv.byId[conv.order[i]]
HasOnlyIn(i, place) ==
  /\ Includes(ToLowerCase(Listing(i).title), Term) <=> place = "title"
  /\ Listing(i).tags[1] # <<>> <=> place = "tag"
  /\ Includes(ToLowerCase(Listing(i).text), Term) <=> place = "text"

\* C26: a search for the term by relevance over three conversations alike in
\* pinned and updatedAt, A with the term in its title only, B in a tag only,
\* C in its text only, returns all three in the order A, B, C
C26_TitleTagText ==
  \A a \in 1..Len(conv.order) : \A b \in 1..Len(conv.order) : \A c \in 1..Len(conv.order) :
    ( /\ Len(conv.order) = 3
      /\ cop.name = "list" /\ cop.sort = "relevance" /\ ~cop.pinnedOnly
      /\ ToLowerCase(StrTrim(cop.query)) = Term
      /\ cop.limit >= 3
      /\ HasOnlyIn(a, "title") /\ HasOnlyIn(b, "tag") /\ HasOnlyIn(c, "text")
      /\ \A i \in 1..3 : /\ Listing(i).pinned = Listing(1).pinned
                         /\ Listing(i).updatedAt = Listing(1).updatedAt ) =>
    ResultIds = <<conv.order[a], conv.order[b], conv.order[c]>>


\* the stored conversations a call with pinnedOnly lets through
Passing == {id \in SavedIds : cop.pinnedOnly => Saved(id).pinned = Some(TRUE)}

\* a comes before b by (pinned descending, updatedAt descending)
Precedes(a, b) ==
  \/ a.pinned = Some(TRUE) /\ b.pinned # Some(TRUE)
  \/ a.pinned = b.pinned /\ a.updatedAt > b.updatedAt

\* C27: with an empty query the result is the first `limit` entries of the
\* conversations passing the filters, sorted by pinned first and then by
\* updatedAt descending
C27_EmptyQueryTopByRecent ==
  (cop.name = "list" /\ StrTrim(cop.query) = <<>>) =>
    /\ Len(cop.result) = Min(cop.limit, Cardinality(Passing))
    /\ NoRepeat(ResultIds)
    /\ \A i \in 1..Len(cop.result) :
         /\ ResultIds[i] \in Passing
         /\ cop.result[i] = Saved(ResultIds[i])
         /\ \A j \in i..Len(cop.result) : ~Precedes(cop.result[j], cop.result[i])
         /\ \A id \in Passing :
              Precedes(Saved(id), cop.result[i]) => \E j \in 1..Len(cop.result) : ResultIds[j] = id

\* C28: with a non-empty query every returned conversation has the query
\* phrase or at least one token of the query that is no stop word in its
\* title, its tags, its url or its text
C28_ResultsMatchQuery ==
  LET q == ToLowerCase(StrTrim(cop.query))
      Fields(c) == {ToLowerCase(c.title), ToLowerCase(c.url), ToLowerCase(c.text)}
                     \cup {ToLowerCase(c.tags[1][i]) : i \in 1..Len(c.tags[1])}
  IN  (cop.name = "list" /\ q # <<>>) =>
        \A i \in 1..Len(cop.result) : \E f \in Fields(cop.result[i]) :
          \/ Includes(f, q)
          \/ \E k \in 1..Len(Tokens(q)) : Includes(f, Tokens(q)[k])


-----------------------------------------------------------------------------
(* Claims about the script runner                                          *)

\* C30: after a route change to a new URL a run of runScripts starts that is
\* later than the change, also when the change comes while a run is in
\* progress: the runner never comes to rest (no timer set, no run in
\* progress) with the last change still unserved
C30_RunAfterRouteChange ==
  (runner.runTimer = "none" /\ ~runner.running) => runner.fresh

-----------------------------------------------------------------------------
(* Claims on the leader_claim tie-break and the leader fields               *)

\* the step delivers a leader_claim of tab s to tab r, which is leader
ClaimReachesLeader(s, r) ==
  /\ s # r
  /\ ChannelOpen(sync[r])
  /\ sync[r].isLeader
  /\ chan[<<s, r>>] # <<>>
  /\ Head(chan[<<s, r>>]).type = MessageType.LEADER_CLAIM
  /\ chan'[<<s, r>>] = Tail(chan[<<s, r>>])
  /\ sync'[r].phase = sync[r].phase

\* C31: when a leader receives the leader_claim of another tab it stays
\* leader exactly if its own tabId is the smaller one; a leader that loses
\* clears isLeader, takes the claimant as leaderId and has no heartbeat
\* interval left
C31_SmallerTabIdWins ==
  [][\A s \in Tabs : \A r \in Tabs :
       ClaimReachesLeader(s, r)
       => /\ sync'[r].isLeader <=> r < s
          /\ ~sync'[r].isLeader
             => /\ sync'[r].leaderId = s
                /\ ~sync'[r].heartbeatInterval]_vars

\* C31 witness: the last message a tab handled was the leader_claim of a tab
\* with a smaller tabId, to which it lost its leadership
C31_Witness ==
  \E r \in Tabs :
    /\ hist[r].yielded
    /\ sync[r].phase = "ready"
    /\ ~sync[r].isLeader
    /\ sync[r].leaderId # NoTab /\ sync[r].leaderId < r
    /\ ~sync[r].heartbeatInterval

\* C39: in every state of a tab whose sync component is running, isLeader
\* holds exactly if leaderId is the tab's own tabId
C39_LeaderIffOwnLeaderId ==
  \A t \in Tabs :
    ChannelOpen(sync[t]) => (sync[t].isLeader <=> sync[t].leaderId = t)

-----------------------------------------------------------------------------
(* Claims on the graph updates of other tabs                                *)

\* the step delivers the oldest message of tab s, of one of `types`, to tab r
UpdateReaches(s, r, types) ==
  /\ s # r
  /\ chan[<<s, r>>] # <<>>
  /\ Head(chan[<<s, r>>]).type \in types
  /\ chan'[<<s, r>>] = Tail(chan[<<s, r>>])

\* the payload is for a node the graph does not have, or is at least as
\* recent as the node the graph has
AbsentOrNotOlder(g, nodeData) ==
  \/ ~MapHas(g.nodes, nodeData.id)
  \/ nodeData.updatedAt >= MapVal(g.nodes, nodeData.id).updatedAt

\* C32: a node_added or node_updated of another tab is applied exactly if the
\* receiving graph has no node of the payload's id, or has one whose
\* metadata.updatedAt is not later than the payload's
C32_NodePayloadApplied ==
  [][\A s \in Tabs : \A r \in Tabs :
       UpdateReaches(s, r, {MessageType.NODE_ADDED, MessageType.NODE_UPDATED})
       => (op'.result <=>
             AbsentOrNotOlder(sync[r].graph, Head(chan[<<s, r>>]).payload))]_vars

\* the edges of the graph whose source or target is not a node of the graph
Dangling(g) ==
  {i \in 1..Len(g.edges) :
     \/ ~MapHas(g.nodes, g.edges[i].v.sourceId)
     \/ ~MapHas(g.nodes, g.edges[i].v.targetId)}

\* C38: after an edge_added of another tab is handled, every edge of the
\* receiving graph has a live source node and a live target node
C38_RemoteEdgeJoinsLiveNodes ==
  [][\A s \in Tabs : \A r \in Tabs :
       UpdateReaches(s, r, {MessageType.EDGE_ADDED})
       => Dangling(sync'[r].graph) = {}]_vars

-----------------------------------------------------------------------------
(* Claims on pump invocations: selection, fairness to the jobs, overlap     *)

\* the scan of invocation p takes up job id in this step
Examines(p, id) ==
  /\ proc[p].pc = "scan"
  /\ proc'[p].pc \in {"perm", "write"}
  /\ proc'[p].id = id

\* C33: a job that is done, running or not yet due in the storage when the
\* scan of a pump invocation examines it is not taken up by that invocation:
\* it is neither written nor sent
C33_PassedOverJobsUntouched ==
  [][\A p \in Procs : \A id \in Stored :
       Examines(p, id)
       => /\ Job(id).status \notin {"done", "running"}
          /\ ~(Job(id).nextRunAt # 0 /\ now < Job(id).nextRunAt)]_vars

\* C35: once the overlapping pump invocations have ended, the attempts of
\* every stored job count the POSTs that were issued for it
C35_AttemptsCountPosts ==
  AtRest => \A id \in Stored : Job(id).attempts = ledger.posts[id]

\* the stored job id is queued, due, and its connector is configured
Eligible(id) ==
  /\ id \in Stored
  /\ Job(id).status = "queued"
  /\ ~(Job(id).nextRunAt # 0 /\ now < Job(id).nextRunAt)
  /\ connectors /\ Job(id).connectorId = "hook"

\* C34: while pump invocations keep coming, a job that is queued and due and
\* has a usable connector is sent at some point, whatever older failed jobs
\* are stored
C34_EligibleJobIsSent ==
  \A id \in BacklogIds : Eligible(id) ~> (ledger.posts[id] > 0)

-----------------------------------------------------------------------------
(* Claim on the url index of the conversation store                         *)

\* C36: every id that urlToId maps a url to is the id of a record of byId
C36_UrlToIdPointsToRecords ==
  \A u \in DOMAIN conv.urlToId : conv.urlToId[u] \in DOMAIN conv.byId

-----------------------------------------------------------------------------
(* Claim on saveGraph and loadGraph                                         *)

\* memoryStore.loadGraph(), called now
Loaded == LoadGraph(disk, now)

\* C37: right after saveGraph(G), loadGraph gives a graph with the node ids
\* and the edge ids of G, whatever was saved before
C37_LoadGivesWhatWasSaved ==
  op.name = "save"
  => /\ MapKeys(Loaded.nodes) = MapKeys(mg.nodes)
     /\ MapKeys(Loaded.edges) = MapKeys(mg.edges)

-----------------------------------------------------------------------------
(* Claim on the edge addEdge returns                                        *)

\* C40: the edge that addEdge(s, t, type) returns goes from s to t and has
\* the given type
C40_ReturnedEdgeJoinsArguments ==
  (op.name = "addEdge" /\ op.source # 0 /\ op.id # 0)
  => LET e == MapVal(mg.edges, op.id)
     IN /\ e.sourceId = op.source
        /\ e.targetId = op.target
        /\ e.type = EdgeTypeUsed

====
